---- MODULE Spec2Model ----
(***************************************************************************)
(* Playback engines of react-audio-spectrogram-player and the play/pause   *)
(* control of PlaybackProvider.                                            *)
(*                                                                         *)
(* WebAudioEngine (buffer-graph backend) and HTML5AudioEngine (device      *)
(* element backend) are modelled as records whose fields carry the names   *)
(* of the class fields; each method is an operator from the record before  *)
(* the call to the record after it.  Time is discrete: one Tick advances   *)
(* the device clock by one unit, and positions are measured in the same    *)
(* unit, so a playback rate r advances the position by r per Tick.         *)
(***************************************************************************)
EXTENDS Integers, Sequences, FiniteSets, TLC

\* duration of the loaded audio, in position units
Duration == 3
\* the device clock is observed up to this value
MaxClock == 2
\* pending setTimeout restarts that may be outstanding at once
MaxTimers == 2
\* initialize() calls on the device-element engine that are followed
MaxListeners == 2

\* playback rates a caller passes to setPlaybackRate
Rates == {1, 2}
\* positions a caller passes to seek and play: below the range, inside it,
\* at its end and beyond it
Times == {-1, 1, Duration, Duration + 1}
\* loop ranges <<start, end>> a caller passes to setLoopMode: the whole file
\* and a part of it
LoopRanges == {<<0, Duration>>, <<1, 2>>}
\* props.playbackSpeedInitial default
playbackSpeedInitial == 1

Max(a, b) == IF a >= b THEN a ELSE b
Min(a, b) == IF a <= b THEN a ELSE b

(***************************************************************************)
(* WebAudioEngine                                                          *)
(***************************************************************************)

\* this.sourceNode = null
NoNode ==
  [exists |-> FALSE, pos |-> 0, rate |-> 1, loop |-> FALSE,
   onended |-> FALSE, endedPending |-> FALSE]

\* field initialisers of the class
WebAudioInit ==
  [context |-> FALSE, gainNode |-> FALSE, sourceNode |-> NoNode,
   audioBuffer |-> FALSE, startTime |-> 0, pausedAt |-> 0,
   isPlaying |-> FALSE, loopMode |-> FALSE, playbackRate |-> 1,
   onEndedCallback |-> FALSE, onTimeUpdateCallback |-> FALSE,
   timeUpdateInterval |-> FALSE, restartTimers |-> 0]

WeGetDuration(e) == IF e.audioBuffer THEN Duration ELSE 0

WeGetCurrentTime(e, clk) ==
  IF ~e.context \/ ~e.isPlaying
    THEN e.pausedAt
    ELSE e.pausedAt + (clk - e.startTime) * e.playbackRate

WeIsAudioPlaying(e) == e.isPlaying

WeStopSourceNode(e) == [e EXCEPT !.sourceNode = NoNode]

WeStopTimeUpdateInterval(e) == [e EXCEPT !.timeUpdateInterval = FALSE]

WeStartTimeUpdateInterval(e) ==
  [e EXCEPT !.timeUpdateInterval = e.onTimeUpdateCallback]

\* initialize(): ok is whether the AudioContext could be constructed
WeInitialize(e, ok) ==
  IF e.context THEN e
  ELSE IF ok THEN [e EXCEPT !.context = TRUE, !.gainNode = TRUE]
  ELSE e

WeInitializeResult(e, ok) == e.context \/ ok

\* loadAudioData(): ok is whether createBuffer and the copy succeeded
WeLoadAudioData(e, initOk, ok) ==
  LET e1 == IF e.context THEN e ELSE WeInitialize(e, initOk)
  IN IF ~e1.context THEN e1
     ELSE IF ok THEN [e1 EXCEPT !.audioBuffer = TRUE]
     ELSE e1

\* the guard of play(): false is returned when it fails
WePlayResult(e) == e.context /\ e.audioBuffer /\ e.gainNode

\* play() that keeps the previous startTime anchor
WePlayStaleAnchor(e, startFrom, clk) ==
  IF ~WePlayResult(e) THEN e
  ELSE
    LET e1 == IF e.isPlaying THEN WeStopSourceNode(e) ELSE e
        offset == Max(0, startFrom)
        p == IF offset >= Duration THEN 0 ELSE offset
    IN WeStartTimeUpdateInterval(
         [e1 EXCEPT !.sourceNode =
                      [exists |-> TRUE, pos |-> p, rate |-> e.playbackRate,
                       loop |-> e.loopMode, onended |-> TRUE,
                       endedPending |-> FALSE],
                    !.pausedAt = p,
                    !.isPlaying = TRUE])

WePlay(e, startFrom, clk) ==
  IF ~WePlayResult(e) THEN e
  ELSE
    LET e1 == IF e.isPlaying THEN WeStopSourceNode(e) ELSE e
        offset == Max(0, startFrom)
        p == IF offset >= Duration THEN 0 ELSE offset
    IN WeStartTimeUpdateInterval(
         [e1 EXCEPT !.sourceNode =
                      [exists |-> TRUE, pos |-> p, rate |-> e.playbackRate,
                       loop |-> e.loopMode, onended |-> TRUE,
                       endedPending |-> FALSE],
                    !.pausedAt = p,
                    !.startTime = clk,
                    !.isPlaying = TRUE])

WePause(e, clk) ==
  IF ~e.isPlaying \/ ~e.context THEN e
  ELSE
    LET e1 == IF e.sourceNode.exists
                THEN [e EXCEPT !.pausedAt =
                        e.pausedAt + (clk - e.startTime) * e.playbackRate]
                ELSE e
    IN WeStopTimeUpdateInterval(
         [WeStopSourceNode(e1) EXCEPT !.isPlaying = FALSE])

\* seek() without the upper clamp to the duration
WeSeekNoUpperClamp(e, newTime) ==
  LET boundedTime == Max(0, newTime)
      e1 == [e EXCEPT !.pausedAt = boundedTime]
  IN IF e.isPlaying
       THEN [WeStopSourceNode(e1) EXCEPT !.restartTimers = @ + 1]
       ELSE e1

\* seek(): the restart is deferred to a 20 ms timer
WeSeek(e, newTime) ==
  LET boundedTime == Max(0, Min(newTime, WeGetDuration(e)))
      e1 == [e EXCEPT !.pausedAt = boundedTime]
  IN IF e.isPlaying
       THEN [WeStopSourceNode(e1) EXCEPT !.restartTimers = @ + 1]
       ELSE e1

\* the setTimeout callback of seek()
WeRestartTimer(e, clk) ==
  WePlay([e EXCEPT !.restartTimers = @ - 1], e.pausedAt, clk)

WeSetPlaybackRate(e, rate) ==
  [e EXCEPT !.playbackRate = rate,
            !.sourceNode.rate = IF e.sourceNode.exists THEN rate ELSE @]

\* setLoopMode(): loopStart and loopEnd are stored for getStatus() only and
\* are not part of the record
WeSetLoopMode(e, enabled, start, end) ==
  [e EXCEPT !.loopMode = enabled,
            !.sourceNode.loop = IF e.sourceNode.exists THEN enabled ELSE @]

WeDestroy(e) ==
  [WeStopSourceNode(WeStopTimeUpdateInterval(e))
     EXCEPT !.context = FALSE, !.gainNode = FALSE, !.audioBuffer = FALSE]

WeOnEnded(e) == [e EXCEPT !.onEndedCallback = TRUE]

WeOnTimeUpdate(e) == [e EXCEPT !.onTimeUpdateCallback = TRUE]

\* sourceNode.onended: TRUE when the handler calls this.onEndedCallback
WeOnendedCalls(e) ==
  e.sourceNode.exists /\ e.isPlaying /\ ~e.loopMode /\ e.onEndedCallback

WeOnended(e, clk) ==
  LET e0 == [e EXCEPT !.sourceNode.endedPending = FALSE]
  IN IF ~(e0.sourceNode.exists /\ e0.isPlaying) THEN e0
     ELSE IF e0.loopMode THEN WePlay(e0, 0, clk)
     ELSE [e0 EXCEPT !.pausedAt = 0, !.isPlaying = FALSE]

\* the AudioBufferSourceNode renders one clock unit of audio
WeRender(e) ==
  LET n == e.sourceNode
  IN IF ~n.exists \/ (~n.loop /\ n.pos >= Duration) THEN e
     ELSE IF n.loop
       THEN [e EXCEPT !.sourceNode.pos = (n.pos + n.rate) % Duration]
     ELSE IF n.pos + n.rate >= Duration
       THEN [e EXCEPT !.sourceNode.pos = Duration,
                      !.sourceNode.endedPending = TRUE]
     ELSE [e EXCEPT !.sourceNode.pos = n.pos + n.rate]

(***************************************************************************)
(* HTML5AudioEngine                                                        *)
(***************************************************************************)

\* field initialisers and constructor: a fresh Audio element without source
Html5Init ==
  [paused |-> TRUE, currentTime |-> 0, ready |-> FALSE, loop |-> FALSE,
   loopMode |-> FALSE, playbackRate |-> 1, listeners |-> 0,
   onEndedCallback |-> FALSE, onTimeUpdateCallback |-> FALSE,
   timeUpdateInterval |-> FALSE, endedPending |-> FALSE]

\* audio.duration || 0 : NaN until the resource is loaded
H5GetDuration(e) == IF e.ready THEN Duration ELSE 0

H5GetCurrentTime(e) == e.currentTime

H5IsAudioPlaying(e) == ~e.paused

H5StopTimeUpdateInterval(e) == [e EXCEPT !.timeUpdateInterval = FALSE]

H5StartTimeUpdateInterval(e) ==
  [e EXCEPT !.timeUpdateInterval = e.onTimeUpdateCallback]

\* initialize() with setupEventListeners(): ok is whether the element
\* reports canplaythrough
H5Initialize(e, ok) ==
  [e EXCEPT !.listeners = @ + 1, !.ready = ok, !.currentTime = 0,
            !.paused = TRUE, !.endedPending = FALSE]

\* the element's currentTime setter
H5SetNativeTime(e, t) ==
  [e EXCEPT !.currentTime = IF e.ready THEN Max(0, Min(t, Duration))
                            ELSE Max(0, t)]

\* the element's play(): accept is whether the device starts playback
H5NativePlay(e, accept) ==
  IF ~accept THEN e
  ELSE [e EXCEPT !.paused = FALSE,
                 !.currentTime = IF e.ready /\ e.currentTime >= Duration
                                   THEN 0 ELSE @]

\* play(startFrom?): hasStart is whether startFrom was passed
H5Play(e, hasStart, startFrom, accept) ==
  LET e1 == IF hasStart THEN H5SetNativeTime(e, startFrom) ELSE e
  IN H5StartTimeUpdateInterval(H5NativePlay(e1, accept))

\* the value play() returns: the catch handler's false is not returned
H5PlayResult(e) == TRUE

H5Pause(e) == H5StopTimeUpdateInterval([e EXCEPT !.paused = TRUE])

\* seek(): Math.min(newTime, NaN) is NaN and the setter rejects it
H5SeekThrows(e) == ~e.ready

H5Seek(e, newTime) ==
  IF H5SeekThrows(e) THEN e
  ELSE [e EXCEPT !.currentTime = Max(0, Min(newTime, Duration))]

H5SetPlaybackRate(e, rate) == [e EXCEPT !.playbackRate = rate]

\* setLoopMode(): audio.loop = enabled whatever the range is
H5SetLoopMode(e, enabled, start, end) ==
  [e EXCEPT !.loopMode = enabled, !.loop = enabled]

H5Destroy(e) ==
  [H5StopTimeUpdateInterval(e)
     EXCEPT !.paused = TRUE, !.ready = FALSE, !.currentTime = 0,
            !.endedPending = FALSE]

H5OnEnded(e) == [e EXCEPT !.onEndedCallback = TRUE]

H5OnTimeUpdate(e) ==
  LET e1 == [e EXCEPT !.onTimeUpdateCallback = TRUE]
  IN IF ~e.paused THEN H5StartTimeUpdateInterval(e1) ELSE e1

\* the 'ended' listeners: how many times onEndedCallback is called
H5EndedCalls(e) ==
  IF ~e.loopMode /\ e.onEndedCallback THEN e.listeners ELSE 0

H5Ended(e, accept) ==
  LET e0 == [e EXCEPT !.endedPending = FALSE]
  IN IF e0.loopMode /\ e0.listeners > 0
       THEN H5Play(e0, TRUE, 0, accept)
       ELSE e0

\* the element plays one clock unit of audio
H5Render(e) ==
  IF e.paused \/ ~e.ready THEN e
  ELSE IF e.currentTime + e.playbackRate < Duration
    THEN [e EXCEPT !.currentTime = @ + e.playbackRate]
  ELSE IF e.loop
    THEN [e EXCEPT !.currentTime = (@ + e.playbackRate) % Duration]
  ELSE [e EXCEPT !.currentTime = Duration, !.paused = TRUE,
                 !.endedPending = TRUE]

(***************************************************************************)
(* SpectrogramWorkerManager                                                *)
(*                                                                         *)
(* The manager is the record pool with the class's fields; wk holds the    *)
(* worker threads (mailboxes in both directions) and task the promise of   *)
(* each processChunk call.  The methods are operators on the three         *)
(* together, s = [pool, wk, task].                                         *)
(***************************************************************************)

\* navigator.hardwareConcurrency of the machine
hardwareConcurrency == 2
\* processChunk calls that are followed
MaxTasks == 2
\* worker runtime faults that are followed
MaxFaults == 1
\* polling intervals a waitForReady call is followed for
MaxWait == 2

\* the cap on the pool size in the constructor
HardCap == 8
\* the workers the constructor creates
actualWorkers == Min(hardwareConcurrency, HardCap)
\* timeout argument of waitForReady, in polling intervals
WaitTimeout == 1

WorkerIds == 1 .. (actualWorkers + MaxFaults)
TaskIds == 1 .. MaxTasks

\* the message a worker script posts when it has loaded
ReadyMsg == [type |-> "ready", id |-> 0]

NoWorker ==
  [state |-> "none", inbox |-> <<>>, outbox |-> <<>>]

NoTask ==
  [promise |-> "none", dispatches |-> 0, to |-> 0, transferred |-> FALSE,
   settles |-> 0, by |-> 0]

\* the position of x in sequence q, 0 when absent (Array.indexOf + 1)
IndexOf(q, x) ==
  IF \E i \in 1 .. Len(q) : q[i] = x
    THEN CHOOSE i \in 1 .. Len(q) :
           q[i] = x /\ \A j \in 1 .. (i - 1) : q[j] # x
    ELSE 0

\* Array.splice(i, 1)
Splice(q, i) == SubSeq(q, 1, i - 1) \o SubSeq(q, i + 1, Len(q))

\* Array.pop(): the array without its last element
Popped(q) == SubSeq(q, 1, Len(q) - 1)

\* new Worker(...): the next worker thread that does not exist yet
NewWorkerId(s) ==
  CHOOSE w \in WorkerIds :
    s.wk[w].state = "none" /\ \A v \in 1 .. (w - 1) : s.wk[v].state # "none"

\* nanoid(): an id no earlier call returned
NewTaskId(s) ==
  CHOOSE id \in TaskIds :
    s.task[id].promise = "none"
      /\ \A j \in 1 .. (id - 1) : s.task[j].promise # "none"

\* createWorker(): the worker script starts and posts 'ready'
CreateWorker(s) ==
  LET w == NewWorkerId(s)
  IN [s EXCEPT !.wk[w] = [state |-> "live", inbox |-> <<>>,
                          outbox |-> <<ReadyMsg>>],
               !.pool.workers = Append(@, w)]

RECURSIVE CreateWorkers(_, _)
CreateWorkers(s, n) ==
  IF n = 0 THEN s ELSE CreateWorkers(CreateWorker(s), n - 1)

\* field initialisers and constructor
WorkerManagerInit ==
  CreateWorkers(
    [pool |-> [workers |-> <<>>, taskQueue |-> <<>>, pendingTasks |-> {},
               availableWorkers |-> <<>>, isInitialized |-> FALSE],
     wk |-> [w \in WorkerIds |-> NoWorker],
     task |-> [id \in TaskIds |-> NoTask]],
    actualWorkers)

\* worker.postMessage(task, transfer?): a terminated worker receives nothing
PostMessage(s, w, id, transfer) ==
  LET s1 == [s EXCEPT !.task[id].dispatches = @ + 1,
                      !.task[id].to = w,
                      !.task[id].transferred = transfer]
  IN IF s.wk[w].state = "live"
       THEN [s1 EXCEPT !.wk[w].inbox = Append(@, id)]
       ELSE s1

\* processQueue() that leaves the dispatched task in the queue
ProcessQueueNoShift(s) ==
  IF Len(s.pool.availableWorkers) = 0 \/ Len(s.pool.taskQueue) = 0 THEN s
  ELSE LET id == Head(s.pool.taskQueue)
           w == s.pool.availableWorkers[Len(s.pool.availableWorkers)]
           s0 == [s EXCEPT !.pool.availableWorkers = Popped(@)]
           s1 == [s0 EXCEPT !.task[id].dispatches = @ + 1,
                            !.task[id].to = w,
                            !.task[id].transferred = FALSE]
       IN IF s.wk[w].state = "live"
            THEN [s1 EXCEPT !.wk[w].inbox = Append(@, id)]
            ELSE s1

ProcessQueue(s) ==
  IF Len(s.pool.availableWorkers) = 0 \/ Len(s.pool.taskQueue) = 0 THEN s
  ELSE LET id == Head(s.pool.taskQueue)
           w == s.pool.availableWorkers[Len(s.pool.availableWorkers)]
       IN PostMessage(
            [s EXCEPT !.pool.taskQueue = Tail(@),
                      !.pool.availableWorkers = Popped(@)],
            w, id, FALSE)

\* task.resolve / task.reject called for a message with the given id
Settled(t, type, id) ==
  [t EXCEPT !.promise = IF @ # "pending" THEN @
                        ELSE IF type = "error" THEN "rejected"
                        ELSE "resolved",
            !.settles = @ + 1,
            !.by = id]

\* handleWorkerMessage() that does not look at the queue when a worker
\* announces that it is ready
HandleWorkerMessageReadyNoDrain(s, w, msg) ==
  IF msg.type = "log" THEN s
  ELSE IF msg.type = "ready"
    THEN [s EXCEPT !.pool.availableWorkers = Append(@, w),
                   !.pool.isInitialized = TRUE]
  ELSE IF msg.id # 0 /\ msg.id \in s.pool.pendingTasks
    THEN ProcessQueue(
           [s EXCEPT !.task[msg.id] = Settled(@, msg.type, msg.id),
                     !.pool.pendingTasks = @ \ {msg.id},
                     !.pool.availableWorkers = Append(@, w)])
  ELSE s

\* handleWorkerMessage() that does not look at the queue after a task is
\* settled
HandleWorkerMessageNoDrain(s, w, msg) ==
  IF msg.type = "log" THEN s
  ELSE IF msg.type = "ready"
    THEN ProcessQueue([s EXCEPT !.pool.availableWorkers = Append(@, w),
                                !.pool.isInitialized = TRUE])
  ELSE IF msg.id # 0 /\ msg.id \in s.pool.pendingTasks
    THEN [s EXCEPT !.task[msg.id] = Settled(@, msg.type, msg.id),
                   !.pool.pendingTasks = @ \ {msg.id},
                   !.pool.availableWorkers = Append(@, w)]
  ELSE s

HandleWorkerMessage(s, w, msg) ==
  IF msg.type = "log" THEN s
  ELSE IF msg.type = "ready"
    THEN ProcessQueue([s EXCEPT !.pool.availableWorkers = Append(@, w),
                                !.pool.isInitialized = TRUE])
  ELSE IF msg.id # 0 /\ msg.id \in s.pool.pendingTasks
    THEN ProcessQueue(
           [s EXCEPT !.task[msg.id] = Settled(@, msg.type, msg.id),
                     !.pool.pendingTasks = @ \ {msg.id},
                     !.pool.availableWorkers = Append(@, w)])
  ELSE s

\* processChunk() that leaves the worker it posts to in the idle list
ProcessChunkNoPop(s) ==
  LET id == NewTaskId(s)
      s1 == [s EXCEPT !.task[id].promise = "pending",
                      !.pool.pendingTasks = @ \cup {id}]
      w == s.pool.availableWorkers[Len(s.pool.availableWorkers)]
  IN IF Len(s.pool.availableWorkers) > 0
       THEN [s1 EXCEPT !.task[id].dispatches = @ + 1,
                       !.task[id].to = w,
                       !.task[id].transferred = TRUE,
                       !.wk = IF s.wk[w].state = "live"
                                THEN [@ EXCEPT ![w].inbox = Append(@, id)]
                                ELSE @]
       ELSE [s1 EXCEPT !.pool.taskQueue = Append(@, id)]

\* processChunk() that puts a task it cannot dispatch at the front of the
\* queue
ProcessChunkUnshift(s) ==
  LET id == NewTaskId(s)
      s1 == [s EXCEPT !.task[id].promise = "pending",
                      !.pool.pendingTasks = @ \cup {id}]
  IN IF Len(s.pool.availableWorkers) > 0
       THEN [s1 EXCEPT !.pool.availableWorkers = Popped(@),
                       !.task[id].dispatches = @ + 1,
                       !.task[id].to =
                         s.pool.availableWorkers[Len(s.pool.availableWorkers)],
                       !.task[id].transferred = TRUE,
                       !.wk = IF s.wk[s.pool.availableWorkers[
                                       Len(s.pool.availableWorkers)]].state
                                   = "live"
                                THEN [@ EXCEPT
                                        ![s.pool.availableWorkers[
                                            Len(s.pool.availableWorkers)]].inbox
                                          = Append(@, id)]
                                ELSE @]
       ELSE [s1 EXCEPT !.pool.taskQueue = <<id>> \o @]

ProcessChunk(s) ==
  LET id == NewTaskId(s)
      s1 == [s EXCEPT !.task[id].promise = "pending",
                      !.pool.pendingTasks = @ \cup {id}]
  IN IF Len(s.pool.availableWorkers) > 0
       THEN PostMessage(
              [s1 EXCEPT !.pool.availableWorkers = Popped(@)],
              s.pool.availableWorkers[Len(s.pool.availableWorkers)],
              id, TRUE)
       ELSE [s1 EXCEPT !.pool.taskQueue = Append(@, id)]

\* worker.terminate(): the thread stops, its mailboxes are dropped
Terminated(wks, w) ==
  [wks EXCEPT ![w] = [state |-> "terminated", inbox |-> <<>>,
                      outbox |-> <<>>]]

\* worker.onerror that also rejects the tasks the faulted worker was given
WorkerOnerrorRejects(s, w) ==
  LET lost == {id \in s.pool.pendingTasks :
                 s.task[id].dispatches > 0 /\ s.task[id].to = w}
      s1 == [s EXCEPT !.wk = [@ EXCEPT ![w] = [state |-> "terminated",
                                               inbox |-> <<>>,
                                               outbox |-> <<>>]],
                      !.task = [id \in TaskIds |->
                                  IF id \in lost
                                    THEN [@[id] EXCEPT !.promise = "rejected",
                                                       !.settles = @ + 1,
                                                       !.by = id]
                                    ELSE @[id]],
                      !.pool.pendingTasks = @ \ lost]
      index == IndexOf(s.pool.workers, w)
  IN IF index > 0
       THEN CreateWorker([s1 EXCEPT !.pool.workers = Splice(@, index)])
       ELSE s1

\* worker.onerror that does not construct a replacement
WorkerOnerrorNoReplace(s, w) ==
  LET s1 == [s EXCEPT !.wk = Terminated(@, w)]
      index == IndexOf(s.pool.workers, w)
  IN IF index > 0
       THEN [s1 EXCEPT !.pool.workers = Splice(@, index)]
       ELSE s1

\* worker.onerror
WorkerOnerror(s, w) ==
  LET s1 == [s EXCEPT !.wk = Terminated(@, w)]
      index == IndexOf(s.pool.workers, w)
  IN IF index > 0
       THEN CreateWorker([s1 EXCEPT !.pool.workers = Splice(@, index)])
       ELSE s1

\* terminate()
TerminateAll(s) ==
  [s EXCEPT
     !.wk = [w \in WorkerIds |->
               IF \E i \in 1 .. Len(s.pool.workers) : s.pool.workers[i] = w
                 THEN [state |-> "terminated", inbox |-> <<>>,
                       outbox |-> <<>>]
                 ELSE s.wk[w]],
     !.pool.workers = <<>>,
     !.pool.availableWorkers = <<>>,
     !.pool.taskQueue = <<>>,
     !.pool.pendingTasks = {}]

\* the condition waitForReady tests
ReadyCondition(p) == p.isInitialized /\ Len(p.availableWorkers) > 0

\* what the worker script posts for a process_chunk message
WorkerReplies(id, outcome) ==
  IF outcome = "complete" THEN <<[type |-> "chunk_complete", id |-> id]>>
  ELSE IF outcome = "noresult" THEN <<[type |-> "error", id |-> id]>>
  ELSE <<[type |-> "log", id |-> 0], [type |-> "error", id |-> id]>>

Outcomes == {"complete", "noresult", "threw"}

\* a waitForReady call that has not been made
NoWaiter == [state |-> "idle", elapsed |-> 0, result |-> FALSE]

(***************************************************************************)
(* SpectrogramGraphics: the chunk plan and the stitching of queryFn        *)
(*                                                                         *)
(* A sample buffer is the sequence of its samples; sample k of the source  *)
(* has the value k, so that a slice shows where it was taken from.  An      *)
(* image is its sequence of pixel columns; column x of the image computed  *)
(* from chunk c is <<c, x>>.                                               *)
(***************************************************************************)

\* samples of the longest source that is followed
MaxSamples == 21

\* the chunking threshold, in seconds
SEGMENT_DURATION == 10
\* chunk tasks awaited together
MAX_CONCURRENT == Min(4, hardwareConcurrency)
\* props.n_mels: the height of every spectrogram image
n_mels == 2
\* sample rates of the sources that are followed, in samples per second
SampleRates == {1, 2}
\* widths the transform may give the image of a chunk
Widths == {1, 2}

\* the decoded mono samples of a source of n samples
Samples(n) == [k \in 1 .. n |-> k]

\* Float32Array.slice(i, j), with 0-based i and exclusive j
Slice(buf, i, j) == SubSeq(buf, i + 1, j)

ShouldChunk(buf, sampleRate) == Len(buf) > SEGMENT_DURATION * sampleRate

\* the for loop that fills chunks, from offset i on
RECURSIVE ChunksFrom(_, _, _)
ChunksFrom(buf, i, chunkSize) ==
  IF i >= Len(buf) THEN <<>>
  ELSE <<Slice(buf, i, Min(i + chunkSize, Len(buf)))>>
         \o ChunksFrom(buf, i + chunkSize, chunkSize)

\* a chunk plan that forgets the shorter last segment
ChunksNoRemainder(buf, sampleRate) ==
  [k \in 1 .. (Len(buf) \div (SEGMENT_DURATION * sampleRate)) |->
     Slice(buf, (k - 1) * SEGMENT_DURATION * sampleRate,
           k * SEGMENT_DURATION * sampleRate)]

\* chunkSize = Math.floor(SEGMENT_DURATION * samplesPerSecond)
Chunks(buf, sampleRate) ==
  ChunksFrom(buf, 0, SEGMENT_DURATION * sampleRate)

\* what worker.processSpectrogram resolves with for chunk c
ImageOf(c, width) ==
  [width |-> width, height |-> n_mels,
   imageData |-> [x \in 1 .. width |-> <<c, x>>]]

Pending == [state |-> "pending", value |-> <<>>]

\* a batch that takes every chunk that is left
BatchPromisesUnbounded(chunks, i) ==
  [k \in 1 .. (Len(chunks) - i) |-> Pending]

\* chunks.slice(i, i + MAX_CONCURRENT).map(...): one promise per chunk
BatchPromises(chunks, i) ==
  [k \in 1 .. (Min(i + MAX_CONCURRENT, Len(chunks)) - i) |-> Pending]

\* the samples handed to processSpectrogram for the batch starting at i
BatchSent(chunks, i) ==
  SubSeq(chunks, i + 1, Min(i + MAX_CONCURRENT, Len(chunks)))

\* the values of the promises in the order in which they were fulfilled
ResultsInCompletionOrder(promises, order) ==
  [k \in 1 .. Len(order) |-> promises[order[k]].value]

\* await Promise.all(batchPromises): the values in the order of the array
PromiseAll(promises, order) ==
  [k \in 1 .. Len(promises) |-> promises[k].value]

\* chunkResults.reduce((sum, result) => sum + (result?.width || 0), 0)
RECURSIVE TotalWidth(_)
TotalWidth(results) ==
  IF Len(results) = 0 THEN 0
  ELSE results[1].width + TotalWidth(Tail(results))

\* ctx.drawImage(tempCanvas, xOffset, 0) on a canvas of pixel columns
DrawImage(canvas, image, xOffset) ==
  [x \in 1 .. Len(canvas) |->
     IF x > xOffset /\ x <= xOffset + image.width
       THEN image.imageData[x - xOffset]
       ELSE canvas[x]]

\* the stitch loop over chunkResults, from result k on
RECURSIVE StitchFrom(_, _, _, _)
StitchFrom(canvas, results, k, xOffset) ==
  IF k > Len(results) THEN canvas
  ELSE StitchFrom(DrawImage(canvas, results[k], xOffset), results, k + 1,
                  xOffset + results[k].width)

Blank == <<0, 0>>

NoOutput == [kind |-> "none", width |-> 0, height |-> 0, columns |-> <<>>]
NullOutput == [kind |-> "null", width |-> 0, height |-> 0, columns |-> <<>>]
ErrorOutput == [kind |-> "error", width |-> 0, height |-> 0, columns |-> <<>>]

\* the composite image queryFn returns for the chunk results
Stitched(results) ==
  IF Len(results) = 0 THEN NullOutput
  ELSE LET totalWidth == TotalWidth(results)
           height == results[1].height
       IN [kind |-> "image", width |-> totalWidth, height |-> height,
           columns |-> StitchFrom([x \in 1 .. totalWidth |-> Blank],
                                  results, 1, 0)]

\* the image queryFn returns for one unchunked result
SingleImage(result) ==
  [kind |-> "image", width |-> result.width, height |-> result.height,
   columns |-> result.imageData]

\* the query for a source of n samples, before queryFn runs
GraphicsInit(n, sampleRate) ==
  [samples |-> Samples(n), sampleRate |-> sampleRate, phase |-> "idle",
   chunks |-> <<>>, i |-> 0, promises |-> <<>>, order |-> <<>>,
   chunkResults |-> <<>>, sent |-> <<>>, reordered |-> FALSE,
   output |-> NoOutput]

\* queryFn up to its first await
QueryStart(g) ==
  IF Len(g.samples) = 0
    THEN [g EXCEPT !.phase = "done", !.output = NullOutput]
  ELSE IF ~ShouldChunk(g.samples, g.sampleRate)
    THEN [g EXCEPT !.phase = "single", !.promises = <<Pending>>,
                   !.sent = <<g.samples>>]
  ELSE LET chunks == Chunks(g.samples, g.sampleRate)
       IN [g EXCEPT !.phase = "batch", !.chunks = chunks, !.i = 0,
                    !.promises = BatchPromises(chunks, 0),
                    !.sent = BatchSent(chunks, 0)]

\* a processSpectrogram call settles: ok is whether the transform succeeded
Settle(g, k, ok, width) ==
  [g EXCEPT !.promises[k] =
              IF ok THEN [state |-> "fulfilled",
                          value |-> ImageOf(g.i + k, width)]
              ELSE [state |-> "rejected", value |-> <<>>],
            !.order = IF ok THEN Append(@, k) ELSE @]

AnyRejected(promises) ==
  \E k \in 1 .. Len(promises) : promises[k].state = "rejected"

AllFulfilled(promises) ==
  \A k \in 1 .. Len(promises) : promises[k].state = "fulfilled"

\* queryFn resumes after await worker.processSpectrogram(...) (no chunking)
ResumeSingle(g) ==
  IF AnyRejected(g.promises)
    THEN [g EXCEPT !.phase = "done", !.output = NullOutput]
    ELSE [g EXCEPT !.phase = "done",
                   !.output = SingleImage(g.promises[1].value)]

\* a continuation that leaves out the calls that failed and goes on
Fulfilled(p) == p.state = "fulfilled"

ResumeBatchSkipsFailed(g) ==
  LET ok == SelectSeq(g.promises, Fulfilled)
      results == g.chunkResults \o [k \in 1 .. Len(ok) |-> ok[k].value]
      i == g.i + MAX_CONCURRENT
      g1 == [g EXCEPT !.chunkResults = results, !.i = i, !.order = <<>>]
  IN IF i < Len(g.chunks)
       THEN [g1 EXCEPT !.promises = BatchPromises(g.chunks, i),
                       !.sent = @ \o BatchSent(g.chunks, i)]
       ELSE [g1 EXCEPT !.phase = "done", !.promises = <<>>,
                       !.output = Stitched(results)]

\* queryFn resumes after await Promise.all(batchPromises)
ResumeBatch(g) ==
  IF AnyRejected(g.promises)
    THEN [g EXCEPT !.phase = "done", !.output = ErrorOutput]
  ELSE LET results == g.chunkResults \o PromiseAll(g.promises, g.order)
           i == g.i + MAX_CONCURRENT
           g1 == [g EXCEPT !.chunkResults = results, !.i = i,
                           !.order = <<>>,
                           !.reordered =
                             @ \/ g.order # [k \in 1 .. Len(g.order) |-> k]]
       IN IF i < Len(g.chunks)
            THEN [g1 EXCEPT !.promises = BatchPromises(g.chunks, i),
                            !.sent = @ \o BatchSent(g.chunks, i)]
            ELSE [g1 EXCEPT !.phase = "done", !.promises = <<>>,
                            !.output = Stitched(results)]

(***************************************************************************)
(* ZoomProvider and SpectrogramNavigator: the viewport window              *)
(*                                                                         *)
(* Times are rational numbers of seconds, <<n, d>> in lowest terms with    *)
(* d > 0, so that the tolerance of 0.1 s and the fractions of the window   *)
(* width are exact.                                                        *)
(***************************************************************************)

\* handler calls and changes of the playback context that are followed
\* after the duration is known, presses of the pointer aside
MaxOps == 3

Abs(i) == IF i < 0 THEN 0 - i ELSE i

RECURSIVE GCD(_, _)
GCD(a, b) == IF b = 0 THEN a ELSE GCD(b, a % b)

LCM(a, b) == (a \div GCD(a, b)) * b

\* the rational n / d in lowest terms
Rat(n, d) ==
  LET g == GCD(Abs(n), d)
  IN IF n = 0 THEN <<0, 1>> ELSE <<n \div g, d \div g>>

\* the numerator of a over the denominator m, a multiple of a's
Over(a, m) == a[1] * (m \div a[2])

RAdd(a, b) ==
  LET m == LCM(a[2], b[2]) IN Rat(Over(a, m) + Over(b, m), m)
RSub(a, b) ==
  LET m == LCM(a[2], b[2]) IN Rat(Over(a, m) - Over(b, m), m)
RMul(a, b) ==
  LET g == GCD(Abs(a[1]), b[2])
      h == GCD(Abs(b[1]), a[2])
  IN Rat((a[1] \div g) * (b[1] \div h), (a[2] \div h) * (b[2] \div g))
\* a / b for b other than 0
RDiv(a, b) ==
  RMul(a, IF b[1] > 0 THEN <<b[2], b[1]>> ELSE <<0 - b[2], 0 - b[1]>>)
\* a times the fraction n / d
RScale(a, n, d) == RMul(a, Rat(n, d))
RLt(a, b) ==
  LET m == LCM(a[2], b[2]) IN Over(a, m) < Over(b, m)
RLe(a, b) == a = b \/ RLt(a, b)
RMin(a, b) == IF RLt(b, a) THEN b ELSE a
RMax(a, b) == IF RLt(a, b) THEN b ELSE a

Zero == <<0, 1>>
\* the tolerance of 0.1 s of the stop and page modes
Tolerance == <<1, 10>>
\* the narrowest window zoomIn accepts, 0.1 s
MinimumZoomedDuration == <<1, 10>>
\* the narrowest window a drag on the navigator selects
MINIMUM_ZOOM_WINDOW_DURATION == <<1, 100>>

Modes == {"page", "stop", "loop", "continue", "scroll", "scrub"}
playheadModeInitial == "page"

\* the states of ZoomProvider and SpectrogramNavigator with the values of
\* the playback context they use, before the duration is known
ZoomInit ==
  [duration |-> Zero, durationKnown |-> FALSE,
   currentTime |-> Zero, mode |-> playheadModeInitial,
   previousMode |-> playheadModeInitial, isPlaying |-> FALSE,
   startTime |-> Zero, endTime |-> <<1, 1>>, previousTime |-> Zero,
   dragStart |-> Zero, dragEnd |-> Zero, ops |-> 0,
   \* history: the last handler or change, the time it reported, the
   \* window before it, and the time of the last engine.seek it made
   op |-> "none", t |-> Zero, wasStartTime |-> Zero, wasEndTime |-> <<1, 1>>,
   seek |-> <<>>]

zoomedDuration(z) == RSub(z.endTime, z.startTime)

isZoomed(z) ==
  z.durationKnown /\ (RLt(Zero, z.startTime) \/ RLt(z.endTime, z.duration))

\* PlaybackProvider.setCurrentTime, as the zoom components see it: the
\* state is set and the initialized engine is seeked
SetCurrentTime(z, newTime) ==
  [z EXCEPT !.currentTime = newTime,
            !.seek = IF z.durationKnown THEN <<newTime>> ELSE @]

\* the onTimeUpdate callback of PlaybackProvider: the state is set
ReportTime(z, time) == [z EXCEPT !.currentTime = time]

\* PlaybackProvider.toggleLoopMode: entering loop mode remembers the mode
\* it is entered from; leaving it only writes to the log
toggleLoopMode(z) ==
  LET newLoopState == z.mode # "loop"
  IN IF newLoopState
       THEN [z EXCEPT !.previousMode =
                        IF z.previousMode = "loop" THEN "continue" ELSE z.mode,
                      !.mode = "loop"]
       ELSE z

\* PlaybackProvider.pause, as the zoom components see it
PausePlayback(z) == [z EXCEPT !.isPlaying = FALSE]

SetWindow(z, newStartTime, newEndTime) ==
  [z EXCEPT !.startTime = newStartTime, !.endTime = newEndTime]

\* the effect on [duration, startTimeInitial, endTimeInitial]
DurationEffect(z, duration) ==
  SetCurrentTime([z EXCEPT !.duration = duration, !.durationKnown = TRUE,
                           !.startTime = Zero, !.endTime = duration], Zero)

setCenterTime(z, centerTime) ==
  IF ~z.durationKnown THEN z
  ELSE LET halfZoomedDuration == RScale(zoomedDuration(z), 1, 2)
           s0 == RMax(Zero, RSub(centerTime, halfZoomedDuration))
           e0 == RMin(z.duration, RAdd(centerTime, halfZoomedDuration))
           e1 == IF RLe(s0, Zero) THEN RMin(z.duration, zoomedDuration(z))
                 ELSE e0
           s1 == IF RLe(z.duration, e1)
                 THEN RMax(Zero, RSub(z.duration, zoomedDuration(z)))
                 ELSE s0
       IN SetWindow(z, s1, e1)

\* a page forward that does not stop at the end of the source
nextPageUnclamped(z) ==
  IF ~z.durationKnown THEN z
  ELSE [z EXCEPT !.startTime = z.endTime,
                 !.endTime = RAdd(z.endTime, RSub(z.endTime, z.startTime))]

nextPage(z) ==
  IF ~z.durationKnown THEN z
  ELSE LET newEndTime == RMin(z.duration, RAdd(z.endTime, zoomedDuration(z)))
           newStartTime == RMax(Zero, RSub(newEndTime, zoomedDuration(z)))
       IN SetWindow(z, newStartTime, newEndTime)

\* the window one width further on, and one width back
PageForward(z) == SetWindow(z, z.endTime, RAdd(z.endTime, zoomedDuration(z)))
PageBackward(z) ==
  SetWindow(z, RSub(z.startTime, zoomedDuration(z)), z.startTime)

AtEnd(z) ==
  RLe(z.endTime, z.currentTime)
    /\ RLe(z.currentTime, RAdd(z.endTime, Tolerance))
PastEnd(z) == RLt(RAdd(z.endTime, Tolerance), z.currentTime)
BeforeStart(z) == RLt(z.currentTime, RSub(z.startTime, Tolerance))

ModeStop(z) ==
  IF AtEnd(z) THEN SetCurrentTime(PausePlayback(z), z.startTime)
  ELSE IF PastEnd(z) THEN PageForward(z)
  ELSE IF BeforeStart(z) THEN PageBackward(z)
  ELSE z

\* a loop that only looks at the forward boundary
ModeLoopForwardOnly(z) ==
  IF RLe(z.endTime, z.currentTime)
    THEN [z EXCEPT !.currentTime = z.startTime, !.seek = <<z.startTime>>]
    ELSE z

ModeLoop(z) ==
  IF RLe(z.endTime, z.currentTime) \/ RLt(z.currentTime, z.startTime)
    THEN SetCurrentTime(z, z.startTime)
    ELSE z

ModePage(z) ==
  IF AtEnd(z) THEN nextPage(z)
  ELSE IF PastEnd(z) THEN PageForward(z)
  ELSE IF BeforeStart(z) THEN PageBackward(z)
  ELSE z

ModeScroll(z) ==
  LET bufferWidth == RScale(zoomedDuration(z), 1, 4)
  IN IF RLt(RSub(z.endTime, bufferWidth), z.currentTime)
       THEN LET offset ==
                  RMin(bufferWidth,
                       RSub(z.currentTime, RSub(z.endTime, bufferWidth)))
            IN SetWindow(z, RAdd(z.startTime, offset), RAdd(z.endTime, offset))
     ELSE IF RLt(z.currentTime, RAdd(z.startTime, bufferWidth))
       THEN LET offset ==
                  RMin(bufferWidth,
                       RSub(RAdd(z.startTime, bufferWidth), z.currentTime))
            IN SetWindow(z, RMax(Zero, RSub(z.startTime, offset)),
                         RSub(z.endTime, offset))
     ELSE z

\* a scrub that cuts the window off at the boundaries of the source
ModeScrubCut(z) ==
  IF ~z.durationKnown THEN z
  ELSE [z EXCEPT
          !.startTime =
             RMax(Zero, RSub(z.currentTime,
                             RScale(RSub(z.endTime, z.startTime), 1, 2))),
          !.endTime =
             RMin(z.duration,
                  RAdd(z.currentTime,
                       RScale(RSub(z.endTime, z.startTime), 1, 2)))]

ModeScrub(z) ==
  IF ~z.durationKnown THEN z
  ELSE LET halfZoomedDuration == RScale(zoomedDuration(z), 1, 2)
           s0 == RMax(Zero, RSub(z.currentTime, halfZoomedDuration))
           e0 == RMin(z.duration, RAdd(z.currentTime, halfZoomedDuration))
           s1 == IF RLe(s0, Zero) THEN Zero ELSE s0
           e1 == IF RLe(s0, Zero) THEN RMin(z.duration, zoomedDuration(z))
                 ELSE e0
           e2 == IF RLe(z.duration, e1) THEN z.duration ELSE e1
           s2 == IF RLe(z.duration, e1)
                 THEN RMax(Zero, RSub(z.duration, zoomedDuration(z)))
                 ELSE s1
       IN SetWindow(z, s2, e2)

\* one run of the effect on [currentTime, mode]
TimeEffect(z) ==
  IF z.currentTime = z.previousTime THEN z
  ELSE LET z1 == [z EXCEPT !.previousTime = z.currentTime]
       IN CASE z.mode = "stop" -> ModeStop(z1)
            [] z.mode = "loop" -> ModeLoop(z1)
            [] z.mode = "page" -> ModePage(z1)
            [] z.mode = "scroll" -> ModeScroll(z1)
            [] z.mode = "scrub" -> ModeScrub(z1)
            [] OTHER -> z1

\* the effect runs again for as long as it changed currentTime itself
RECURSIVE Rendered(_)
Rendered(z) ==
  LET z1 == TimeEffect(z)
  IN IF z1.currentTime = z.currentTime THEN z1 ELSE Rendered(z1)

\* zoomIn without the floor on the new width
zoomInNoFloor(z) ==
  IF ~z.durationKnown THEN z
  ELSE LET zoomAmount == RScale(zoomedDuration(z), 1, 5)
           newStartTime == RMax(Zero, RAdd(z.startTime, zoomAmount))
           newEndTime == RMin(z.duration, RSub(z.endTime, zoomAmount))
           newWidth == RSub(newEndTime, newStartTime)
           currentTimeRelativePosition ==
             RDiv(RSub(z.currentTime, z.startTime), zoomedDuration(z))
           newCurrentTimePosition ==
             RAdd(newStartTime, RMul(newWidth, currentTimeRelativePosition))
       IN LET z1 == SetWindow(z, newStartTime, newEndTime)
          IN IF RLt(z.currentTime, newStartTime)
                  \/ RLt(newEndTime, z.currentTime)
               THEN SetCurrentTime(z1, newCurrentTimePosition)
               ELSE z1

zoomIn(z) ==
  IF ~z.durationKnown THEN z
  ELSE LET zoomAmount == RScale(zoomedDuration(z), 1, 5)
           newStartTime == RMax(Zero, RAdd(z.startTime, zoomAmount))
           newEndTime == RMin(z.duration, RSub(z.endTime, zoomAmount))
           newWidth == RSub(newEndTime, newStartTime)
           currentTimeRelativePosition ==
             RDiv(RSub(z.currentTime, z.startTime), zoomedDuration(z))
           newCurrentTimePosition ==
             RAdd(newStartTime, RMul(newWidth, currentTimeRelativePosition))
       IN IF RLe(MinimumZoomedDuration, newWidth)
            THEN LET z1 == SetWindow(z, newStartTime, newEndTime)
                 IN IF RLt(z.currentTime, newStartTime)
                         \/ RLt(newEndTime, z.currentTime)
                      THEN SetCurrentTime(z1, newCurrentTimePosition)
                      ELSE z1
            ELSE z

zoomOut(z) ==
  IF ~z.durationKnown THEN z
  ELSE LET zoomAmount == RScale(zoomedDuration(z), 1, 3)
       IN SetWindow(z, RMax(Zero, RSub(z.startTime, zoomAmount)),
                    RMin(z.duration, RAdd(z.endTime, zoomAmount)))

\* the drag state is null until the pointer goes down; a coordinate of 0
\* is as falsy as null
draggingToZoom(z) == ~isZoomed(z) /\ z.dragStart # Zero /\ z.dragEnd # Zero
draggingToPan(z) == isZoomed(z) /\ z.dragStart # Zero

\* the time under a pointer at fraction x / duration of the navigator
getPointerCoordinate(z, x) == IF z.duration # Zero THEN x ELSE Zero

onPointerDown(z, x) == [z EXCEPT !.dragStart = getPointerCoordinate(z, x)]

onPointerMove(z, x) ==
  LET newDragEnd == getPointerCoordinate(z, x)
      z1 == [z EXCEPT !.dragEnd = newDragEnd]
  IN IF newDragEnd # Zero /\ draggingToPan(z) /\ z.duration # Zero
       THEN LET half == RScale(zoomedDuration(z), 1, 2)
                newCenterTime ==
                  RMin(RMax(half, newDragEnd), RSub(z.duration, half))
            IN SetCurrentTime(setCenterTime(z1, newCenterTime),
                              RSub(newCenterTime, half))
       ELSE z1

onPointerUp(z) ==
  LET z1 == IF draggingToZoom(z) /\ z.duration # Zero
              THEN IF RLe(MINIMUM_ZOOM_WINDOW_DURATION,
                          RSub(z.dragEnd, z.dragStart))
                     THEN SetCurrentTime(SetWindow(z, z.dragStart, z.dragEnd),
                                         z.dragStart)
                     ELSE SetCurrentTime(SetWindow(z, Zero, z.duration), Zero)
              ELSE z
  IN [z1 EXCEPT !.dragStart = Zero, !.dragEnd = Zero]

(***************************************************************************)
(* PlaybackProvider: the engine initialization effect                      *)
(*                                                                         *)
(* The effect runs at mount and whenever backend, src or the requested     *)
(* sample rate change.  Each run asks createAudioEngine for an engine of   *)
(* its own; the record keeps every engine that was asked for.              *)
(***************************************************************************)

\* runs of the effect that are followed
MaxEngines == 3

EngineIds == 1 .. MaxEngines
Backends == {"webaudio", "html5"}

NoEngine == [state |-> "none", backend |-> "html5"]

\* before the effect has run: audioEngineRef.current is null (0)
MountInit ==
  [ref |-> 0, engineInitialized |-> FALSE, latest |-> 0,
   eng |-> [g \in EngineIds |-> NoEngine]]

\* the cleanup function of the effect
cleanup(m) ==
  IF m.ref # 0
    THEN [m EXCEPT !.eng[m.ref].state = "destroyed", !.ref = 0,
                   !.engineInitialized = FALSE]
    ELSE m

\* the body of the effect: the cleanup of the last run, then
\* createAudioEngine(backend, src, ...) is called and not awaited
EngineEffect(m, b) ==
  LET m1 == cleanup(m)
      g == m.latest + 1
  IN [m1 EXCEPT !.latest = g, !.eng[g] = [state |-> "pending", backend |-> b]]

\* the then-callback of createAudioEngine for engine g
CreateResolved(m, g) ==
  [m EXCEPT !.eng[g].state = "live", !.ref = g, !.engineInitialized = TRUE]

\* createAudioEngine rejects: initialize() of engine g failed
CreateRejected(m, g) == [m EXCEPT !.eng[g].state = "failed"]

(***************************************************************************)
(* State                                                                   *)
(***************************************************************************)

VARIABLES
  backend,            \* props.backend: which engine class is in use
  now,                \* the device clock (AudioContext.currentTime)
  webAudio,           \* the WebAudioEngine object
  html5,              \* the HTML5AudioEngine object
  audioEngineRef,     \* PlaybackProvider: audioEngineRef.current is set
  engineInitialized,  \* PlaybackProvider: engineInitialized state
  isPlaying,          \* PlaybackProvider: state of the useIsPlaying hook
  playbackRate,       \* PlaybackProvider: playbackRate state
  lastOp,             \* history: the call or callback of the last step
  lastArg,            \* history: the argument of a seek or a loop range's length
  lastRet,            \* history: what the call returned
  fired,              \* history: callbacks and events of the last step
  delivered,          \* history: last onTimeUpdate value since a jump
  sincePlay,          \* history: the play(t0) still running undisturbed
  destroyed,          \* history: destroy() has returned on the engine
  pool,               \* the SpectrogramWorkerManager object
  wk,                 \* the worker threads and their mailboxes
  task,               \* the promise and history of each processChunk call
  waiter,             \* the waitForReady call
  gfx,                \* SpectrogramGraphics: one run of queryFn
  mount,              \* PlaybackProvider: the runs of the engine effect
  zoom                \* ZoomProvider, SpectrogramNavigator and their context

engineVars == <<backend, now, webAudio, html5>>
providerVars == <<audioEngineRef, engineInitialized, isPlaying, playbackRate>>
historyVars ==
  <<lastOp, lastArg, lastRet, fired, delivered, sincePlay, destroyed>>
poolVars == <<pool, wk, task, waiter>>
playbackVars == <<engineVars, providerVars, historyVars, mount>>
vars == <<playbackVars, poolVars, gfx, zoom>>

NoDelivery == [has |-> FALSE, v |-> 0]
NoPlay == [valid |-> FALSE, t0 |-> 0, at |-> 0, rate |-> 1]

IsWebAudio == backend = "webaudio"
IsHtml5 == backend = "html5"

\* engine.getCurrentTime() / isAudioPlaying() / getDuration() on the
\* engine in use
GetCurrentTime ==
  IF IsWebAudio THEN WeGetCurrentTime(webAudio, now)
  ELSE H5GetCurrentTime(html5)

IsAudioPlaying ==
  IF IsWebAudio THEN WeIsAudioPlaying(webAudio) ELSE H5IsAudioPlaying(html5)

GetDuration ==
  IF IsWebAudio THEN WeGetDuration(webAudio) ELSE H5GetDuration(html5)

\* the position the engine stores: pausedAt / audio.currentTime
StoredPosition ==
  IF IsWebAudio THEN webAudio.pausedAt ELSE html5.currentTime

Clamp(t) == Max(0, Min(t, GetDuration))

Init ==
  /\ backend \in {"webaudio", "html5"}
  /\ now = 0
  /\ webAudio = WebAudioInit
  /\ html5 = Html5Init
  /\ audioEngineRef = FALSE
  /\ engineInitialized = FALSE
  /\ isPlaying = FALSE
  /\ playbackRate = playbackSpeedInitial
  /\ lastOp = "new"
  /\ lastArg = 0
  /\ lastRet = "void"
  /\ fired = <<>>
  /\ delivered = NoDelivery
  /\ sincePlay = NoPlay
  /\ destroyed = FALSE
  /\ pool = WorkerManagerInit.pool
  /\ wk = WorkerManagerInit.wk
  /\ task = WorkerManagerInit.task
  /\ waiter = NoWaiter
  /\ gfx = GraphicsInit(0, 1)
  /\ mount = MountInit
  /\ zoom = ZoomInit

\* history of one step of the playback engines, which leaves the worker
\* pool, the spectrogram request and the viewport alone
Note(op, arg, ret, f) ==
  /\ lastOp' = op
  /\ lastArg' = arg
  /\ lastRet' = ret
  /\ fired' = f
  /\ UNCHANGED <<poolVars, gfx, zoom, mount>>

Bool(b) == IF b THEN "true" ELSE "false"

PlayNote(e, startFrom) ==
  IF WePlayResult(e)
    THEN [valid |-> TRUE, t0 |-> startFrom, at |-> now,
          rate |-> e.playbackRate]
    ELSE NoPlay

(***************************************************************************)
(* Calls on the engine by a caller that holds it                           *)
(***************************************************************************)

\* engine.initialize()
Initialize(ok) ==
  /\ \/ /\ IsWebAudio
        /\ webAudio' = WeInitialize(webAudio, ok)
        /\ now' = IF ~webAudio.context /\ ok THEN 0 ELSE now
        /\ Note("initialize", 0, Bool(WeInitializeResult(webAudio, ok)), <<>>)
        /\ UNCHANGED html5
     \/ /\ IsHtml5
        /\ html5.listeners < MaxListeners
        /\ html5' = H5Initialize(html5, ok)
        /\ Note("initialize", 0, Bool(ok), <<>>)
        /\ UNCHANGED <<webAudio, now>>
  /\ delivered' = NoDelivery
  /\ sincePlay' = NoPlay
  /\ UNCHANGED <<backend, providerVars, destroyed>>

\* engine.loadAudioData(samples, sampleRate, numChannels)
LoadAudioData(initOk, ok) ==
  /\ IsWebAudio
  /\ webAudio' = WeLoadAudioData(webAudio, initOk, ok)
  /\ now' = IF ~webAudio.context /\ initOk THEN 0 ELSE now
  /\ Note("loadAudioData", 0, Bool(webAudio'.context /\ ok), <<>>)
  /\ delivered' = NoDelivery
  /\ sincePlay' = NoPlay
  /\ UNCHANGED <<backend, html5, providerVars, destroyed>>

\* engine.onEnded(cb) and engine.onTimeUpdate(cb)
RegisterCallbacks ==
  /\ webAudio' = IF IsWebAudio THEN WeOnEnded(WeOnTimeUpdate(webAudio))
                 ELSE webAudio
  /\ html5' = IF IsHtml5 THEN H5OnEnded(H5OnTimeUpdate(html5)) ELSE html5
  /\ Note("register", 0, "void", <<>>)
  /\ sincePlay' = NoPlay
  /\ UNCHANGED <<backend, now, providerVars, delivered, destroyed>>

\* engine.play(startFrom)
Play(t) ==
  /\ \/ /\ IsWebAudio
        /\ webAudio' = WePlay(webAudio, t, now)
        /\ Note("play", 0, Bool(WePlayResult(webAudio)), <<>>)
        /\ sincePlay' = PlayNote(webAudio, t)
        /\ UNCHANGED html5
     \/ /\ IsHtml5
        /\ \E accept \in BOOLEAN : html5' = H5Play(html5, TRUE, t, accept)
        /\ Note("play", 0, Bool(H5PlayResult(html5)), <<>>)
        /\ sincePlay' = NoPlay
        /\ UNCHANGED webAudio
  /\ delivered' = NoDelivery
  /\ UNCHANGED <<backend, now, providerVars, destroyed>>

\* engine.play() without argument
PlayDefault ==
  /\ \/ /\ IsWebAudio
        /\ webAudio' = WePlay(webAudio, webAudio.pausedAt, now)
        /\ Note("play", 0, Bool(WePlayResult(webAudio)), <<>>)
        /\ sincePlay' = PlayNote(webAudio, webAudio.pausedAt)
        /\ UNCHANGED html5
     \/ /\ IsHtml5
        /\ \E accept \in BOOLEAN : html5' = H5Play(html5, FALSE, 0, accept)
        /\ Note("play", 0, Bool(H5PlayResult(html5)), <<>>)
        /\ sincePlay' = NoPlay
        /\ UNCHANGED webAudio
  /\ delivered' = NoDelivery
  /\ UNCHANGED <<backend, now, providerVars, destroyed>>

\* engine.pause()
Pause ==
  /\ \/ /\ IsWebAudio
        /\ webAudio' = WePause(webAudio, now)
        /\ UNCHANGED html5
     \/ /\ IsHtml5
        /\ html5' = H5Pause(html5)
        /\ UNCHANGED webAudio
  /\ Note("pause", 0, "void", <<>>)
  /\ delivered' = NoDelivery
  /\ sincePlay' = NoPlay
  /\ UNCHANGED <<backend, now, providerVars, destroyed>>

\* history of a seek: a seek(t) that directly follows a seek(t) is marked
SeekOp(t) ==
  IF lastOp \in {"seek", "seekAgain"} /\ lastArg = t
    THEN "seekAgain" ELSE "seek"

\* engine.seek(newTime)
Seek(t) ==
  /\ \/ /\ IsWebAudio
        /\ webAudio.isPlaying => webAudio.restartTimers < MaxTimers
        /\ webAudio' = WeSeek(webAudio, t)
        /\ Note(SeekOp(t), t, "void", <<>>)
        /\ UNCHANGED html5
     \/ /\ IsHtml5
        /\ html5' = H5Seek(html5, t)
        /\ Note(SeekOp(t), t,
                IF H5SeekThrows(html5) THEN "throw" ELSE "void", <<>>)
        /\ UNCHANGED webAudio
  /\ delivered' = NoDelivery
  /\ sincePlay' = NoPlay
  /\ UNCHANGED <<backend, now, providerVars, destroyed>>

\* engine.setPlaybackRate(rate)
SetPlaybackRate(r) ==
  /\ \/ /\ IsWebAudio
        /\ webAudio' = WeSetPlaybackRate(webAudio, r)
        /\ UNCHANGED html5
     \/ /\ IsHtml5
        /\ html5' = H5SetPlaybackRate(html5, r)
        /\ UNCHANGED webAudio
  /\ Note("setPlaybackRate", 0, "void", <<>>)
  /\ sincePlay' = NoPlay
  /\ UNCHANGED <<backend, now, providerVars, delivered, destroyed>>

\* engine.setLoopMode(enabled, start, end); the history keeps the length
\* of the range
SetLoopMode(b, rg) ==
  /\ \/ /\ IsWebAudio
        /\ webAudio' = WeSetLoopMode(webAudio, b, rg[1], rg[2])
        /\ UNCHANGED html5
     \/ /\ IsHtml5
        /\ html5' = H5SetLoopMode(html5, b, rg[1], rg[2])
        /\ UNCHANGED webAudio
  /\ Note("setLoopMode", rg[2] - rg[1], "void", <<>>)
  /\ sincePlay' = NoPlay
  /\ UNCHANGED <<backend, now, providerVars, delivered, destroyed>>

\* engine.destroy()
Destroy ==
  /\ \/ /\ IsWebAudio
        /\ webAudio' = WeDestroy(webAudio)
        /\ UNCHANGED html5
     \/ /\ IsHtml5
        /\ html5' = H5Destroy(html5)
        /\ UNCHANGED webAudio
  /\ Note("destroy", 0, "void", <<>>)
  /\ destroyed' = TRUE
  /\ delivered' = NoDelivery
  /\ sincePlay' = NoPlay
  /\ UNCHANGED <<backend, now, providerVars>>

(***************************************************************************)
(* Timers, device events and the device clock                              *)
(***************************************************************************)

\* AudioEngineEvents.dispatchEvent seen by the useIsPlaying listeners,
\* which are subscribed while engineInitialized holds
Dispatched(state, f) ==
  IF ~engineInitialized \/ Len(f) = 0 THEN state
  ELSE IF f[Len(f)] = "play" THEN TRUE
  ELSE IF f[Len(f)] = "pause" THEN FALSE
  ELSE state

\* n calls of onEndedCallback; the callback PlaybackProvider registers
\* dispatches 'pause'
RECURSIVE EndedFired(_, _)
EndedFired(n, provider) ==
  LET one == IF provider THEN <<"onEnded", "pause">> ELSE <<"onEnded">>
  IN IF n = 0 THEN <<>>
     ELSE IF n = 1 THEN one
     ELSE one \o EndedFired(n - 1, provider)

\* the setTimeout callback that seek() scheduled runs
RestartTimer ==
  /\ IsWebAudio
  /\ webAudio.restartTimers > 0
  /\ webAudio' = WeRestartTimer(webAudio, now)
  /\ Note("restart", 0, Bool(WePlayResult(webAudio)), <<>>)
  /\ delivered' = NoDelivery
  /\ sincePlay' = NoPlay
  /\ UNCHANGED <<backend, now, html5, providerVars, destroyed>>

\* the 'ended' event of the source node / of the audio element
Ended ==
  /\ \/ /\ IsWebAudio
        /\ webAudio.sourceNode.exists
        /\ webAudio.sourceNode.onended
        /\ webAudio.sourceNode.endedPending
        /\ webAudio' = WeOnended(webAudio, now)
        /\ Note("ended", 0, "void",
                EndedFired(IF WeOnendedCalls(webAudio) THEN 1 ELSE 0,
                           audioEngineRef))
        /\ UNCHANGED html5
     \/ /\ IsHtml5
        /\ html5.endedPending
        /\ html5.listeners > 0
        /\ \E accept \in BOOLEAN : html5' = H5Ended(html5, accept)
        /\ Note("ended", 0, "void",
                EndedFired(H5EndedCalls(html5), audioEngineRef))
        /\ UNCHANGED webAudio
  /\ isPlaying' = Dispatched(isPlaying, fired')
  /\ delivered' = NoDelivery
  /\ sincePlay' = NoPlay
  /\ UNCHANGED <<backend, now, audioEngineRef, engineInitialized,
                 playbackRate, destroyed>>

\* the setInterval callback of startTimeUpdateInterval delivers a value
TimeUpdate ==
  /\ \/ /\ IsWebAudio
        /\ webAudio.timeUpdateInterval
        /\ webAudio.isPlaying
     \/ /\ IsHtml5
        /\ html5.timeUpdateInterval
        /\ ~html5.paused
        /\ html5.onTimeUpdateCallback
  /\ Note("timeUpdate", 0, "void", <<"onTimeUpdate">>)
  /\ delivered' = [has |-> TRUE, v |-> GetCurrentTime]
  /\ UNCHANGED <<engineVars, providerVars, sincePlay, destroyed>>

\* the element's own 'timeupdate' event reaches the listener
NativeTimeUpdate ==
  /\ IsHtml5
  /\ html5.listeners > 0
  /\ html5.ready
  /\ html5.onTimeUpdateCallback
  /\ Note("timeUpdate", 0, "void", <<"onTimeUpdate">>)
  /\ delivered' = IF html5.paused THEN delivered
                  ELSE [has |-> TRUE, v |-> GetCurrentTime]
  /\ UNCHANGED <<engineVars, providerVars, sincePlay, destroyed>>

\* one unit of device time passes
Tick ==
  /\ now < MaxClock
  /\ IsWebAudio => webAudio.context
  /\ now' = now + 1
  /\ webAudio' = IF IsWebAudio THEN WeRender(webAudio) ELSE webAudio
  /\ html5' = IF IsHtml5 THEN H5Render(html5) ELSE html5
  /\ Note("tick", 0, "void", <<>>)
  /\ delivered' = IF IsHtml5 /\ html5'.currentTime < html5.currentTime
                    THEN NoDelivery ELSE delivered
  /\ UNCHANGED <<backend, providerVars, sincePlay, destroyed>>

Events ==
  \/ RestartTimer
  \/ Ended
  \/ TimeUpdate
  \/ NativeTimeUpdate
  \/ Tick

Next ==
  \/ \E ok \in BOOLEAN : Initialize(ok)
  \/ \E initOk \in BOOLEAN, ok \in BOOLEAN : LoadAudioData(initOk, ok)
  \/ RegisterCallbacks
  \/ \E t \in Times : Play(t)
  \/ PlayDefault
  \/ Pause
  \/ \E t \in Times : Seek(t)
  \/ \E r \in Rates : SetPlaybackRate(r)
  \/ \E b \in BOOLEAN, rg \in LoopRanges : SetLoopMode(b, rg)
  \/ Destroy
  \/ Events

\* an engine used directly through the AudioEngine interface
Spec == Init /\ [][Next]_vars

(***************************************************************************)
(* PlaybackProvider                                                        *)
(***************************************************************************)

Attached == audioEngineRef /\ engineInitialized

\* the engine createAudioEngine resolves with, after the .then callback
MountedWebAudio(rate, loadOk) ==
  WeLoadAudioData(
    WeSetPlaybackRate(
      WeOnEnded(WeOnTimeUpdate(WeInitialize(WebAudioInit, TRUE))), rate),
    TRUE, loadOk)

MountedHtml5(rate) ==
  H5SetPlaybackRate(
    H5OnEnded(H5OnTimeUpdate(H5Initialize(Html5Init, TRUE))), rate)

\* the engine effect: createAudioEngine(backend, src) and its .then / .catch
Mount(ok, loadOk) ==
  /\ ~audioEngineRef
  /\ Note("mount", 0, Bool(ok), <<>>)
  /\ IF ok
       THEN /\ webAudio' = IF IsWebAudio
                             THEN MountedWebAudio(playbackRate, loadOk)
                             ELSE webAudio
            /\ html5' = IF IsHtml5 THEN MountedHtml5(playbackRate) ELSE html5
            /\ now' = 0
            /\ audioEngineRef' = TRUE
            /\ engineInitialized' = TRUE
            /\ isPlaying' = FALSE
            /\ destroyed' = FALSE
       ELSE UNCHANGED <<webAudio, html5, now, audioEngineRef,
                        engineInitialized, isPlaying, destroyed>>
  /\ delivered' = NoDelivery
  /\ sincePlay' = NoPlay
  /\ UNCHANGED <<backend, playbackRate>>

\* the cleanup function of the engine effect
Cleanup ==
  /\ audioEngineRef
  /\ webAudio' = IF IsWebAudio THEN WeDestroy(webAudio) ELSE webAudio
  /\ html5' = IF IsHtml5 THEN H5Destroy(html5) ELSE html5
  /\ audioEngineRef' = FALSE
  /\ engineInitialized' = FALSE
  /\ Note("cleanup", 0, "void", <<>>)
  /\ destroyed' = TRUE
  /\ delivered' = NoDelivery
  /\ sincePlay' = NoPlay
  /\ UNCHANGED <<backend, now, isPlaying, playbackRate>>

\* PlaybackProvider.play without the isAudioPlaying() check
ProviderPlayCallsAlways == Attached

\* PlaybackProvider.play: whether it calls engine.play()
ProviderPlayCalls == Attached /\ ~IsAudioPlaying

\* PlaybackProvider.play: what it dispatches
ProviderPlayFired(success) ==
  IF ProviderPlayCalls /\ success THEN <<"play">> ELSE <<>>

\* PlaybackProvider.play
ProviderPlay ==
  LET success == IF IsWebAudio THEN WePlayResult(webAudio)
                 ELSE H5PlayResult(html5)
  IN /\ webAudio' = IF ProviderPlayCalls /\ IsWebAudio
                      THEN WePlay(webAudio, webAudio.pausedAt, now)
                      ELSE webAudio
     /\ \E accept \in BOOLEAN :
          html5' = IF ProviderPlayCalls /\ IsHtml5
                     THEN H5Play(html5, FALSE, 0, accept)
                     ELSE html5
     /\ Note("providerPlay", 0,
             IF ProviderPlayCalls THEN Bool(success) ELSE "void",
             ProviderPlayFired(success))
     /\ isPlaying' = Dispatched(isPlaying, fired')
     /\ sincePlay' = IF ProviderPlayCalls /\ IsWebAudio
                       THEN PlayNote(webAudio, webAudio.pausedAt)
                       ELSE NoPlay
     /\ delivered' = IF ProviderPlayCalls THEN NoDelivery ELSE delivered
     /\ UNCHANGED <<backend, now, audioEngineRef, engineInitialized,
                    playbackRate, destroyed>>

\* PlaybackProvider.pause without the isAudioPlaying() check
ProviderPauseCallsAlways == Attached

\* PlaybackProvider.pause: whether it calls engine.pause()
ProviderPauseCalls == Attached /\ IsAudioPlaying

\* PlaybackProvider.pause: what it dispatches
ProviderPauseFired == IF ProviderPauseCalls THEN <<"pause">> ELSE <<>>

\* history of a pause: a pause that directly follows a pause which paused
\* the engine is marked
PauseOp ==
  IF lastOp = "providerPause" /\ fired = <<"pause">>
    THEN "providerPauseAgain" ELSE "providerPause"

\* PlaybackProvider.pause
ProviderPause ==
  /\ webAudio' = IF ProviderPauseCalls /\ IsWebAudio
                   THEN WePause(webAudio, now)
                   ELSE webAudio
  /\ html5' = IF ProviderPauseCalls /\ IsHtml5 THEN H5Pause(html5)
              ELSE html5
  /\ Note(PauseOp, 0, "void", ProviderPauseFired)
  /\ isPlaying' = Dispatched(isPlaying, fired')
  /\ delivered' = NoDelivery
  /\ sincePlay' = NoPlay
  /\ UNCHANGED <<backend, now, audioEngineRef, engineInitialized,
                 playbackRate, destroyed>>

\* PlaybackProvider.setCurrentTime
ProviderSetCurrentTime(t) ==
  /\ IsWebAudio /\ Attached /\ webAudio.isPlaying
       => webAudio.restartTimers < MaxTimers
  /\ webAudio' = IF Attached /\ IsWebAudio THEN WeSeek(webAudio, t)
                 ELSE webAudio
  /\ html5' = IF Attached /\ IsHtml5 THEN H5Seek(html5, t) ELSE html5
  /\ Note(SeekOp(t), t,
          IF Attached /\ IsHtml5 /\ H5SeekThrows(html5) THEN "throw"
          ELSE "void", <<>>)
  /\ delivered' = NoDelivery
  /\ sincePlay' = NoPlay
  /\ UNCHANGED <<backend, now, providerVars, destroyed>>

\* PlaybackProvider.setPlaybackRate
ProviderSetPlaybackRate(r) ==
  /\ playbackRate' = r
  /\ webAudio' = IF Attached /\ IsWebAudio THEN WeSetPlaybackRate(webAudio, r)
                 ELSE webAudio
  /\ html5' = IF Attached /\ IsHtml5 THEN H5SetPlaybackRate(html5, r)
              ELSE html5
  /\ Note("setPlaybackRate", 0, "void", <<>>)
  /\ sincePlay' = NoPlay
  /\ UNCHANGED <<backend, now, audioEngineRef, engineInitialized, isPlaying,
                 delivered, destroyed>>

ProviderNext ==
  \/ \E ok \in BOOLEAN, loadOk \in BOOLEAN : Mount(ok, loadOk)
  \/ Cleanup
  \/ ProviderPlay
  \/ ProviderPause
  \/ \E t \in Times : ProviderSetCurrentTime(t)
  \/ \E r \in Rates : ProviderSetPlaybackRate(r)
  \/ Events

\* engines created, driven and destroyed by PlaybackProvider
ProviderSpec == Init /\ [][ProviderNext]_vars

TypeOK ==
  /\ backend \in {"webaudio", "html5"}
  /\ now \in 0 .. MaxClock
  /\ webAudio.restartTimers \in 0 .. MaxTimers
  /\ html5.listeners \in 0 .. MaxListeners
  /\ isPlaying \in BOOLEAN

(***************************************************************************)
(* Properties                                                              *)
(***************************************************************************)

SeekOps == {"seek", "seekAgain"}
PauseOps == {"providerPause", "providerPauseAgain"}

\* the engine holds a loaded audio resource
Loaded ==
  IF IsWebAudio THEN webAudio.context /\ webAudio.audioBuffer
  ELSE html5.ready

\* the buffer-graph engine is in the Playing state
WePlaying == IsWebAudio /\ webAudio.context /\ webAudio.isPlaying

\* C1: on the buffer-graph engine, in Ready, Playing and Paused,
\* getCurrentTime() right after seek(t) is t clamped to [0, duration],
\* whether or not the engine is playing.
C1_SeekReportsClampedTime ==
  (IsWebAudio /\ webAudio.context /\ lastOp \in SeekOps)
    => GetCurrentTime = Clamp(lastArg)

\* C2: seek(t); seek(t) leaves getCurrentTime() and the stored position as
\* a single seek(t) leaves them, and the stored position after seek(t) is t
\* clamped: 0 for t < 0, the duration for t > duration.
C2_SeekIdempotentClamping ==
  [][ /\ (lastOp' \in SeekOps /\ lastRet' # "throw")
           => StoredPosition' = Max(0, Min(lastArg', GetDuration))
      /\ lastOp' = "seekAgain"
           => /\ GetCurrentTime' = GetCurrentTime
              /\ StoredPosition' = StoredPosition ]_vars

\* C2 witness: a second seek beyond the end of a playing engine whose clock
\* has advanced since it started
C2_Witness ==
  /\ lastOp = "seekAgain"
  /\ WePlaying
  /\ webAudio.audioBuffer
  /\ lastArg > Duration
  /\ now > webAudio.startTime

\* C3: PlaybackProvider.pause on an engine that is not playing changes no
\* engine state and dispatches no event; on a playing engine it pauses it
\* and dispatches 'pause' once; a second pause right after does nothing.
C3_PauseIdempotent ==
  [][ /\ (lastOp' \in PauseOps /\ ~IsAudioPlaying)
           => /\ fired' = <<>>
              /\ webAudio' = webAudio
              /\ html5' = html5
              /\ isPlaying' = isPlaying
      /\ (lastOp' \in PauseOps /\ IsAudioPlaying /\ Attached)
           => /\ fired' = <<"pause">>
              /\ ~IsAudioPlaying'
              /\ ~isPlaying'
      /\ lastOp' = "providerPauseAgain"
           => /\ fired' = <<>>
              /\ webAudio' = webAudio
              /\ html5' = html5 ]_vars

\* C3 witness: the second of two consecutive pauses, the first of which
\* paused a playing engine
C3_Witness ==
  /\ lastOp = "providerPauseAgain"
  /\ Attached
  /\ Loaded
  /\ ~IsAudioPlaying

\* C4: PlaybackProvider.play on a playing engine is a no-op without event;
\* a play the engine accepts from a non-playing state dispatches 'play'
\* exactly once and sets isPlaying; a rejected one dispatches nothing.
C4_PlayOnceOrNoop ==
  [][ lastOp' = "providerPlay" =>
        /\ IsAudioPlaying
             => /\ fired' = <<>>
                /\ webAudio' = webAudio
                /\ html5' = html5
        /\ (~IsAudioPlaying /\ lastRet' = "true")
             => /\ fired' = <<"play">>
                /\ isPlaying'
                /\ IsWebAudio => webAudio'.isPlaying
        /\ lastRet' # "true" => fired' = <<>> ]_vars

\* C4 witness: a play request has started a loaded, paused engine
C4_Witness ==
  /\ lastOp = "providerPlay"
  /\ fired = <<"play">>
  /\ isPlaying
  /\ WePlaying
  /\ webAudio.sourceNode.exists

\* C5: an engine reports playing only with an initialized, loaded audio
\* resource, and play() in any other state returns false.
C5_PlayNeedsLoadedAudio ==
  /\ IsAudioPlaying => Loaded
  /\ (lastOp = "play" /\ ~Loaded) => lastRet = "false"

C7_RateChangeKeepsPosition ==
  [][ (WePlaying /\ lastOp' = "setPlaybackRate")
        => GetCurrentTime' = GetCurrentTime ]_vars

\* C8: a seek while the buffer-graph engine is playing never calls onEnded
\* and keeps the engine playing, and the deferred restart starts the stream
\* at the new offset.
C8_SeekRestartsAtNewOffset ==
  [][ /\ (WePlaying /\ lastOp' \in SeekOps)
           => /\ webAudio'.isPlaying
              /\ fired' = <<>>
      /\ (WePlaying /\ webAudio.audioBuffer /\ lastOp \in SeekOps
            /\ lastOp' = "restart")
           => /\ webAudio'.isPlaying
              /\ fired' = <<>>
              /\ webAudio'.sourceNode.exists
              /\ webAudio'.sourceNode.pos = Clamp(lastArg) ]_vars

\* C9: the values delivered to onTimeUpdate while playing never decrease
\* between seeks and restarts, also across setPlaybackRate calls.
C9_TimeUpdatesMonotonic ==
  [][ (lastOp' = "timeUpdate" /\ delivered.has /\ delivered'.has)
        => delivered'.v >= delivered.v ]_vars

\* C10: after destroy() the engine does not report playing, rejects play(),
\* calls no callback and no call on it throws.
C10_DestroyedIsSafe ==
  destroyed =>
    /\ ~IsAudioPlaying
    /\ lastOp = "play" => lastRet = "false"
    /\ lastRet # "throw"
    /\ fired = <<>>

\* C11: when the device rejects a play request, play() returns false, no
\* 'play' event is dispatched, the engine and the orchestrator's isPlaying
\* are paused and no time-update timer is left running.
C11_RejectedPlayReported ==
  [][ (lastOp' = "providerPlay" /\ IsHtml5 /\ ProviderPlayCalls
         /\ html5'.paused)
        => /\ lastRet' = "false"
           /\ fired' = <<>>
           /\ ~isPlaying'
           /\ ~html5'.timeUpdateInterval ]_vars

\* an engine whose initialize() has succeeded and that was not destroyed
Initialized ==
  /\ ~destroyed
  /\ IF IsWebAudio THEN webAudio.context
     ELSE html5.listeners > 0 /\ html5.ready

\* C12: a repeated initialize() before destroy() is a no-op that returns
\* what the first call returned and registers no further listener, so one
\* natural end of playback calls onEnded exactly once.
C12_InitializeIdempotent ==
  [][ /\ (Initialized /\ lastOp' = "initialize")
           => /\ lastRet' = "true"
              /\ webAudio' = webAudio
              /\ html5' = html5
      /\ (~destroyed /\ lastOp' = "ended")
           => Len(SelectSeq(fired', LAMBDA x : x = "onEnded")) <= 1 ]_vars

\* the loop flag of the device object that plays: the source node's or the
\* audio element's
NativeLoop ==
  IF IsWebAudio THEN webAudio.sourceNode.exists /\ webAudio.sourceNode.loop
  ELSE html5.loop

\* C13: setLoopMode(enabled, start, end) turns the native loop flag on only
\* when enabled is true and [start, end] is the whole file; for an enabled
\* part of the file the flag stays off.
C13_NativeLoopOnlyWholeFile ==
  [][ (Loaded /\ (IsWebAudio => webAudio.sourceNode.exists)
         /\ lastOp' = "setLoopMode")
        => LET enabled == IF IsWebAudio THEN webAudio'.loopMode
                          ELSE html5'.loopMode
           IN NativeLoop' = (enabled /\ lastArg' = GetDuration) ]_vars

(***************************************************************************)
(* SpectrogramWorkerManager: calls, worker messages and worker threads     *)
(***************************************************************************)

PoolState == [pool |-> pool, wk |-> wk, task |-> task]

PoolBecomes(s) ==
  /\ pool' = s.pool
  /\ wk' = s.wk
  /\ task' = s.task

\* manager.processChunk(audioSamples, sampleRate, params)
CallProcessChunk ==
  /\ \E id \in TaskIds : task[id].promise = "none"
  /\ PoolBecomes(ProcessChunk(PoolState))
  /\ UNCHANGED <<playbackVars, gfx, zoom, waiter>>

\* worker.onmessage: the oldest message worker w posted is handled
WorkerMessage(w) ==
  /\ wk[w].state = "live"
  /\ Len(wk[w].outbox) > 0
  /\ PoolBecomes(
       HandleWorkerMessage([PoolState EXCEPT !.wk[w].outbox = Tail(@)],
                           w, Head(wk[w].outbox)))
  /\ UNCHANGED <<playbackVars, gfx, zoom, waiter>>

\* self.onmessage in the worker script: worker w answers its oldest message
WorkerRuns(w, outcome) ==
  /\ wk[w].state = "live"
  /\ Len(wk[w].inbox) > 0
  /\ wk' = [wk EXCEPT ![w].inbox = Tail(@),
                      ![w].outbox = @ \o WorkerReplies(Head(wk[w].inbox),
                                                       outcome)]
  /\ UNCHANGED <<playbackVars, gfx, zoom, pool, task, waiter>>

\* worker.onerror: an uncaught error in worker w
WorkerFault(w) ==
  /\ wk[w].state = "live"
  /\ \E v \in WorkerIds : wk[v].state = "none"
  /\ PoolBecomes(WorkerOnerror(PoolState, w))
  /\ UNCHANGED <<playbackVars, gfx, zoom, waiter>>

\* manager.terminate()
Terminate ==
  /\ Len(pool.workers) > 0
  /\ PoolBecomes(TerminateAll(PoolState))
  /\ UNCHANGED <<playbackVars, gfx, zoom, waiter>>

\* manager.waitForReady(timeout): the check made at the call
WaitForReady ==
  /\ waiter.state = "idle"
  /\ waiter' = IF ReadyCondition(pool)
                 THEN [state |-> "done", elapsed |-> 0, result |-> TRUE]
                 ELSE [state |-> "polling", elapsed |-> 0, result |-> FALSE]
  /\ UNCHANGED <<playbackVars, gfx, zoom, pool, wk, task>>

\* the setInterval callback of waitForReady that resolves the promise
WaitPoll ==
  /\ waiter.state = "polling"
  /\ ReadyCondition(pool) \/ waiter.elapsed > WaitTimeout
  /\ waiter' = [waiter EXCEPT !.state = "done",
                              !.result = ReadyCondition(pool)]
  /\ UNCHANGED <<playbackVars, gfx, zoom, pool, wk, task>>

\* Date.now() advances by one polling interval during a waitForReady call
WaitTick ==
  /\ waiter.state = "polling"
  /\ waiter.elapsed < MaxWait
  /\ waiter' = [waiter EXCEPT !.elapsed = @ + 1]
  /\ UNCHANGED <<playbackVars, gfx, zoom, pool, wk, task>>

PoolNext ==
  \/ CallProcessChunk
  \/ \E w \in WorkerIds : WorkerMessage(w)
  \/ \E w \in WorkerIds, outcome \in Outcomes : WorkerRuns(w, outcome)
  \/ \E w \in WorkerIds : WorkerFault(w)
  \/ Terminate

\* the pool is created once, whatever the playback backend is
PoolInit == Init /\ backend = "html5"

\* the worker pool, its workers and the callers of processChunk
PoolSpec == PoolInit /\ [][PoolNext]_vars

WaitNext ==
  \/ PoolNext
  \/ WaitForReady
  \/ WaitPoll
  \/ WaitTick

\* the worker pool with a caller of waitForReady
WaitSpec == PoolInit /\ [][WaitNext]_vars

\* the pool while no worker faults and terminate() is not called
LiveNext ==
  \/ CallProcessChunk
  \/ \E w \in WorkerIds : WorkerMessage(w)
  \/ \E w \in WorkerIds, outcome \in Outcomes : WorkerRuns(w, outcome)

\* the event loop of the control thread handles every message that was
\* posted, and every worker answers the messages it was sent
LiveFairness ==
  \A w \in WorkerIds :
    /\ WF_vars(WorkerMessage(w))
    /\ WF_vars(\E outcome \in Outcomes : WorkerRuns(w, outcome))

LiveSpec == PoolInit /\ [][LiveNext]_vars /\ LiveFairness

PoolTypeOK ==
  /\ pool.pendingTasks \subseteq TaskIds
  /\ \A w \in WorkerIds : wk[w].state \in {"none", "live", "terminated"}
  /\ \A id \in TaskIds :
       task[id].promise \in {"none", "pending", "resolved", "rejected"}
  /\ waiter.elapsed \in 0 .. MaxWait

(***************************************************************************)
(* Properties of the worker pool                                           *)
(***************************************************************************)

\* C14: each task is dispatched to at most one worker at most once and its
\* promise is settled at most once, by a message that carries the task's own
\* id, whatever order the workers complete in.
C14_ResultCorrelation ==
  \A id \in TaskIds :
    /\ task[id].dispatches <= 1
    /\ task[id].settles <= 1
    /\ task[id].settles = 1 => task[id].by = id
    /\ task[id].promise \in {"resolved", "rejected"} <=> task[id].settles = 1
    /\ \A w \in WorkerIds :
         \A i \in 1 .. Len(wk[w].outbox) :
           wk[w].outbox[i].id # 0 => task[wk[w].outbox[i].id].to = w

\* C14 witness: the task submitted second is settled by its own message
\* while the task submitted first is still with a worker
C14_Witness ==
  /\ task[1].promise = "pending"
  /\ task[1].dispatches = 1
  /\ task[2].promise = "resolved"
  /\ task[2].by = 2
  /\ task[1].to # task[2].to

\* C15: waitForReady resolves false only when no worker has announced
\* readiness with a 'ready' message, whether or not that worker has since
\* been given a task; a true result means a worker has announced readiness.
C15_WaitForReadyBarrier ==
  waiter.state = "done" => (waiter.result <=> pool.isInitialized)

\* the tasks in the queue
Queued == {pool.taskQueue[i] : i \in 1 .. Len(pool.taskQueue)}

\* task id is submitted in the step: ids are given in the order of the calls
Submitted(id) == task[id].promise = "none" /\ task'[id].promise = "pending"

\* task id is posted to a worker in the step
Posted(id) == task'[id].dispatches = task[id].dispatches + 1

\* C27: a task submitted while the list of idle workers is not empty is
\* posted to a worker in the same step and is not queued; otherwise it is put
\* at the end of the queue and not posted.  A queued task that is posted was
\* at the head of the queue, every other queued task was submitted after it,
\* and the rest of the queue keeps its order.
C27_FifoQueue ==
  [][ \A id \in TaskIds :
        /\ Submitted(id) =>
              IF Len(pool.availableWorkers) > 0
                THEN /\ Posted(id)
                     /\ task'[id].to
                          = pool.availableWorkers[Len(pool.availableWorkers)]
                     /\ pool'.taskQueue = pool.taskQueue
                ELSE /\ ~Posted(id)
                     /\ pool'.taskQueue = Append(pool.taskQueue, id)
        /\ (Posted(id) /\ ~Submitted(id)) =>
              /\ id \in Queued
              /\ id = Head(pool.taskQueue)
              /\ \A other \in Queued \ {id} : id < other
              /\ pool'.taskQueue = Tail(pool.taskQueue) ]_vars

\* C27 witness: both tasks were queued; the one submitted first has been
\* posted to a worker and the one submitted second is still in the queue
C27_Witness ==
  /\ task[1].dispatches = 1
  /\ ~task[1].transferred
  /\ pool.taskQueue = <<2>>

\* the promise of task id is settled in the step
Completed(id) == task'[id].settles = task[id].settles + 1

\* C28: after every call and every handled message, the list of idle
\* workers and the task queue are not both non-empty.  The step that handles
\* a completion or error message of a task settles the task's promise, takes
\* the task out of the pending map and marks the worker idle; when a task is
\* queued, the head of the queue is posted to that worker in the same step.
C28_WorkConserving ==
  [][ /\ ~(Len(pool'.availableWorkers) > 0 /\ Len(pool'.taskQueue) > 0)
      /\ \A id \in TaskIds :
           Completed(id) =>
             /\ task'[id].promise \in {"resolved", "rejected"}
             /\ pool'.pendingTasks = pool.pendingTasks \ {id}
             /\ IF Len(pool.taskQueue) > 0
                  THEN /\ Posted(Head(pool.taskQueue))
                       /\ task'[Head(pool.taskQueue)].to = task[id].to
                       /\ pool'.taskQueue = Tail(pool.taskQueue)
                       /\ pool'.availableWorkers = pool.availableWorkers
                  ELSE pool'.availableWorkers
                         = Append(pool.availableWorkers, task[id].to) ]_vars

\* C28 witness: the task submitted first is settled and the queued task has
\* gone to the worker that completed it, while the other worker's 'ready'
\* message is still to be handled
C28_Witness ==
  /\ task[1].promise = "resolved"
  /\ task[2].dispatches = 1
  /\ ~task[2].transferred
  /\ task[2].to = task[1].to
  /\ pool.availableWorkers = <<>>
  /\ \E w \in WorkerIds :
       w # task[1].to /\ wk[w].state = "live" /\ wk[w].outbox = <<ReadyMsg>>

\* the worker threads that run
LiveWorkers(wks) == {w \in WorkerIds : wks[w].state = "live"}

\* the pool has its fixed size: the workers array holds actualWorkers
\* distinct workers, and they are the threads that run
FixedSize(p, wks) ==
  /\ Len(p.workers) = actualWorkers
  /\ {p.workers[i] : i \in 1 .. Len(p.workers)} = LiveWorkers(wks)
  /\ Cardinality(LiveWorkers(wks)) = actualWorkers

\* C29: from construction until terminate() is called, and after any number
\* of worker faults, the pool has exactly min(hardwareConcurrency, 8) live
\* workers; a fault terminates the faulted worker, takes it out of the
\* workers array and adds exactly one newly constructed worker.
C29_PoolSizeFixed ==
  [][ /\ Len(pool.workers) > 0 => FixedSize(pool, wk)
      /\ Len(pool'.workers) > 0 => FixedSize(pool', wk')
      /\ \A w \in WorkerIds :
           (wk[w].state = "live" /\ wk'[w].state = "terminated"
              /\ Len(pool'.workers) > 0) =>
             \E v \in WorkerIds :
               /\ wk[v].state = "none"
               /\ LiveWorkers(wk') = (LiveWorkers(wk) \ {w}) \cup {v}
               /\ wk'[v].outbox = <<ReadyMsg>>
               /\ pool'.workers
                    = Append(Splice(pool.workers, IndexOf(pool.workers, w)),
                             v) ]_vars

\* C29 witness: a worker has faulted and the pool has its size again
C29_Witness ==
  /\ \E w \in WorkerIds : wk[w].state = "terminated"
  /\ FixedSize(pool, wk)

\* worker w faults in the step (terminate() leaves no worker in the pool)
Faults(w) ==
  /\ wk[w].state = "live"
  /\ wk'[w].state = "terminated"
  /\ Len(pool'.workers) > 0

\* task id was posted to a worker that a fault has terminated, and was not
\* settled before
Lost(id) ==
  /\ task[id].dispatches > 0
  /\ task[id].promise = "pending"
  /\ wk[task[id].to].state = "terminated"
  /\ Len(pool.workers) > 0

\* C30: the step in which a worker faults changes no task: the task the
\* worker was executing is not posted again and not settled and stays in the
\* pending map, and the other tasks, the queue, the list of idle workers and
\* the other workers' messages are as before.  In every later step the task
\* of the faulted worker is still not posted and not settled, and it stays in
\* the pending map for as long as the pool is not shut down.
C30_FaultedTaskIsLost ==
  [][ /\ \A w \in WorkerIds :
           Faults(w) =>
             /\ task' = task
             /\ pool'.pendingTasks = pool.pendingTasks
             /\ pool'.taskQueue = pool.taskQueue
             /\ pool'.availableWorkers = pool.availableWorkers
             /\ \A v \in LiveWorkers(wk) \ {w} : wk'[v] = wk[v]
      /\ \A id \in TaskIds :
           Lost(id) =>
             /\ task'[id] = task[id]
             /\ Len(pool'.workers) > 0 => id \in pool'.pendingTasks ]_vars

\* C30 witness: the worker executing the first task has faulted; the task
\* is pending for good, and the second task, queued at the time of the
\* fault, has been resolved by the replacement worker
C30_Witness ==
  /\ Lost(1)
  /\ 1 \in pool.pendingTasks
  /\ task[2].promise = "resolved"
  /\ ~task[2].transferred
  /\ task[2].to > actualWorkers

\* C31: every task that has been posted to a worker, at the call of
\* processChunk or later from the queue, was posted with the sample buffer in
\* the transfer list, so that the buffer's memory moved to the worker and
\* was not copied.
C31_DispatchTransfers ==
  \A id \in TaskIds : task[id].dispatches > 0 => task[id].transferred

(***************************************************************************)
(* SpectrogramGraphics: the query, the transforms and the continuations    *)
(***************************************************************************)

\* the query runs queryFn for a source of n samples
QueryFn(n, sampleRate) ==
  /\ gfx.phase \in {"idle", "done"}
  /\ gfx' = QueryStart(GraphicsInit(n, sampleRate))
  /\ UNCHANGED <<playbackVars, poolVars, zoom>>

\* the transform of call k of the awaited calls succeeds
TransformDone(k, width) ==
  /\ gfx.phase \in {"single", "batch"}
  /\ k \in 1 .. Len(gfx.promises)
  /\ gfx.promises[k].state = "pending"
  /\ gfx' = Settle(gfx, k, TRUE, width)
  /\ UNCHANGED <<playbackVars, poolVars, zoom>>

\* the transform of call k of the awaited calls throws
TransformThrows(k) ==
  /\ gfx.phase \in {"single", "batch"}
  /\ k \in 1 .. Len(gfx.promises)
  /\ gfx.promises[k].state = "pending"
  /\ gfx' = Settle(gfx, k, FALSE, 0)
  /\ UNCHANGED <<playbackVars, poolVars, zoom>>

\* the awaited promise of the unchunked call is settled
AwaitSingle ==
  /\ gfx.phase = "single"
  /\ gfx.promises[1].state # "pending"
  /\ gfx' = ResumeSingle(gfx)
  /\ UNCHANGED <<playbackVars, poolVars, zoom>>

\* Promise.all of the batch is settled: all fulfilled, or one rejected
AwaitBatch ==
  /\ gfx.phase = "batch"
  /\ AllFulfilled(gfx.promises) \/ AnyRejected(gfx.promises)
  /\ gfx' = ResumeBatch(gfx)
  /\ UNCHANGED <<playbackVars, poolVars, zoom>>

GraphicsNext ==
  \/ \E n \in 0 .. MaxSamples, sampleRate \in SampleRates :
       QueryFn(n, sampleRate)
  \/ \E k \in 1 .. MAX_CONCURRENT, width \in Widths : TransformDone(k, width)
  \/ \E k \in 1 .. MAX_CONCURRENT : TransformThrows(k)
  \/ AwaitSingle
  \/ AwaitBatch

GraphicsSpec == PoolInit /\ [][GraphicsNext]_vars

(***************************************************************************)
(* The viewport: time updates, mode switches, zooming and dragging         *)
(***************************************************************************)

\* the whole seconds of a source of Duration seconds
Grid == {Rat(k, 1) : k \in 0 .. Duration}

\* the times a time update may report: the grid and the times at and
\* around the window boundaries, within the source
TimeValues(z) ==
  {t \in Grid \cup {z.endTime, RAdd(z.endTime, <<1, 20>>),
                     RAdd(z.endTime, <<1, 5>>), RSub(z.startTime, <<1, 20>>),
                     RSub(z.startTime, <<1, 5>>)} :
     RLe(Zero, t) /\ RLe(t, z.duration)}

\* the times under the pointer that are followed
PointerValues == {<<1, 2>>, <<1, 1>>, <<201, 200>>, <<21, 20>>, <<5, 2>>}

\* the components as a step finds them: it has made no engine.seek yet
Before == [zoom EXCEPT !.seek = <<>>]

\* the history of step op, taken from the state before it
Noted(z, op, t) ==
  [z EXCEPT !.op = op, !.t = t,
            !.wasStartTime = zoom.startTime, !.wasEndTime = zoom.endTime]

\* a handler left the components in state z; they render and their
\* effects run
ZoomBecomes(z, op, t) ==
  /\ zoom.ops < MaxOps
  /\ \E z1 \in {Rendered(z)} :
       zoom' = [Noted(z1, op, t) EXCEPT !.ops = zoom.ops + 1]
  /\ UNCHANGED <<playbackVars, poolVars, gfx>>

\* the engine is initialized and the duration becomes known
DurationLoaded ==
  /\ ~zoom.durationKnown
  /\ zoom' = Noted(Rendered(DurationEffect(Before, <<Duration, 1>>)),
                   "duration", Zero)
  /\ UNCHANGED <<playbackVars, poolVars, gfx>>

\* a time update of the engine reports t, other than the time reported
\* last
TimeChanges(t) ==
  /\ zoom.durationKnown
  /\ t \in TimeValues(zoom)
  /\ t # zoom.currentTime
  /\ ZoomBecomes(ReportTime(Before, t), "time", t)

SetMode(m) ==
  /\ zoom.durationKnown
  /\ m # zoom.mode
  /\ ZoomBecomes([Before EXCEPT !.mode = m], "mode", Zero)

\* the loop button of AudioControls is clicked
ToggleLoopMode ==
  zoom.durationKnown /\ ZoomBecomes(toggleLoopMode(Before), "toggleLoop", Zero)

\* playback is started or resumed
Resume ==
  /\ zoom.durationKnown
  /\ ~zoom.isPlaying
  /\ ZoomBecomes([Before EXCEPT !.isPlaying = TRUE], "resume", Zero)

ZoomIn == zoom.durationKnown /\ ZoomBecomes(zoomIn(Before), "zoomIn", Zero)

ZoomOut == zoom.durationKnown /\ ZoomBecomes(zoomOut(Before), "zoomOut", Zero)

\* the pointer goes down on the navigator while no drag is under way
PointerDown(x) ==
  /\ zoom.durationKnown
  /\ zoom.dragStart = Zero
  /\ zoom.ops < MaxOps
  /\ zoom' = Noted(Rendered(onPointerDown(Before, x)), "down", x)
  /\ UNCHANGED <<playbackVars, poolVars, gfx>>

PointerMove(x) ==
  zoom.durationKnown /\ ZoomBecomes(onPointerMove(Before, x), "move", x)

PointerUp == zoom.durationKnown /\ ZoomBecomes(onPointerUp(Before), "up", Zero)

ZoomNext ==
  \/ DurationLoaded
  \/ \E t \in TimeValues(zoom) : TimeChanges(t)
  \/ \E m \in Modes : SetMode(m)
  \/ ToggleLoopMode
  \/ Resume
  \/ ZoomIn
  \/ ZoomOut
  \/ \E x \in PointerValues : PointerDown(x)
  \/ \E x \in PointerValues : PointerMove(x)
  \/ PointerUp

ZoomSpec == PoolInit /\ [][ZoomNext]_vars

(***************************************************************************)
(* Properties of the spectrogram query                                     *)
(***************************************************************************)

RECURSIVE Concat(_)
Concat(segments) ==
  IF Len(segments) = 0 THEN <<>>
  ELSE segments[1] \o Concat(Tail(segments))

IsPrefix(a, b) == Len(a) <= Len(b) /\ a = SubSeq(b, 1, Len(a))

\* the segments are the split of the buffer into pieces of size samples,
\* the last one possibly shorter
IsChunkPlan(segments, buf, size) ==
  /\ Len(segments) = (Len(buf) + size - 1) \div size
  /\ \A k \in 1 .. Len(segments) - 1 : Len(segments[k]) = size
  /\ Len(segments[Len(segments)]) \in 1 .. size
  /\ Concat(segments) = buf

ResultOf(c) ==
  CHOOSE r \in {gfx.chunkResults[k] : k \in 1 .. Len(gfx.chunkResults)} :
    r.imageData[1][1] = c

\* the sum of the widths of the results of the chunks before chunk c
RECURSIVE WidthBefore(_)
WidthBefore(c) ==
  IF c <= 1 THEN 0 ELSE WidthBefore(c - 1) + ResultOf(c - 1).width

\* C17: the composite of a chunked query is the concatenation of the chunk
\* images in original segment order, whatever the order in which the
\* transforms completed: with widths w1..wN and common height h, column x
\* of chunk i is column (w1 + ... + w(i-1)) + x of the composite, and the
\* composite is (w1 + ... + wN) x h.
C17_StitchInSegmentOrder ==
  (gfx.phase = "done" /\ gfx.output.kind = "image" /\ Len(gfx.chunks) > 0) =>
    LET N == Len(gfx.chunks)
    IN /\ Len(gfx.chunkResults) = N
       /\ \A c \in 1 .. N : \E k \in 1 .. N :
            gfx.chunkResults[k] = ImageOf(c, gfx.chunkResults[k].width)
       /\ gfx.output.width = WidthBefore(N + 1)
       /\ gfx.output.height = n_mels
       /\ Len(gfx.output.columns) = WidthBefore(N + 1)
       /\ \A c \in 1 .. N : \A x \in 1 .. ResultOf(c).width :
            gfx.output.columns[WidthBefore(c) + x] = <<c, x>>

\* three chunk images of different widths, completed out of order in a
\* batch, were stitched
C17_Witness ==
  /\ gfx.phase = "done"
  /\ gfx.output.kind = "image"
  /\ Len(gfx.chunks) = 3
  /\ gfx.reordered
  /\ gfx.chunkResults[1].width # gfx.chunkResults[2].width
  /\ gfx.output.width = 5

(***************************************************************************)
(* Properties of the viewport                                              *)
(***************************************************************************)

\* C18: once the duration is known, after any sequence of time updates in
\* any mode, mode switches, zoomIn, zoomOut, pan and drag-zoom operations,
\* the window satisfies 0 <= startTime < endTime <= duration.
C18_WindowInvariant ==
  zoom.durationKnown =>
    /\ RLe(Zero, zoom.startTime)
    /\ RLt(zoom.startTime, zoom.endTime)
    /\ RLe(zoom.endTime, zoom.duration)

\* the window is [a, b]
WindowIs(a, b) == zoom.startTime = a /\ zoom.endTime = b

\* the width of the window before the last step
wasWidth == RSub(zoom.wasEndTime, zoom.wasStartTime)

\* the last step was a time update in page mode
PageModeUpdate == zoom.op = "time" /\ zoom.mode = "page"

\* C19 as stated: in page mode a time update at or past endTime advances
\* the window by exactly one width, to [endTime, endTime + width]; one
\* before startTime moves it to [startTime - width, startTime]; every
\* other time update leaves the window unchanged.
C19_PageModeAsStated ==
  PageModeUpdate =>
    IF RLe(zoom.wasEndTime, zoom.t)
      THEN WindowIs(zoom.wasEndTime, RAdd(zoom.wasEndTime, wasWidth))
    ELSE IF RLt(zoom.t, zoom.wasStartTime)
      THEN WindowIs(RSub(zoom.wasStartTime, wasWidth), zoom.wasStartTime)
    ELSE WindowIs(zoom.wasStartTime, zoom.wasEndTime)

\* C19, amended: in page mode a time update within 0.1 s at or after
\* endTime advances the window by one width, stopped at the end of the
\* source: the new endTime is min(duration, endTime + width) and the new
\* startTime is that minus the width, or 0 if that is negative; one more
\* than 0.1 s past endTime moves it to [endTime, endTime + width]; one
\* more than 0.1 s before startTime moves it to
\* [startTime - width, startTime]; every other time update leaves the
\* window unchanged.
C19_PageMode ==
  PageModeUpdate =>
    IF RLe(zoom.wasEndTime, zoom.t)
         /\ RLe(zoom.t, RAdd(zoom.wasEndTime, <<1, 10>>))
      THEN LET e == RMin(zoom.duration, RAdd(zoom.wasEndTime, wasWidth))
           IN WindowIs(RMax(Zero, RSub(e, wasWidth)), e)
    ELSE IF RLt(RAdd(zoom.wasEndTime, <<1, 10>>), zoom.t)
      THEN WindowIs(zoom.wasEndTime, RAdd(zoom.wasEndTime, wasWidth))
    ELSE IF RLt(zoom.t, RSub(zoom.wasStartTime, <<1, 10>>))
      THEN WindowIs(RSub(zoom.wasStartTime, wasWidth), zoom.wasStartTime)
    ELSE WindowIs(zoom.wasStartTime, zoom.wasEndTime)

\* in page mode the playhead reached the end of a zoomed window and the
\* window advanced by exactly its width
C19_Witness ==
  /\ PageModeUpdate
  /\ zoom.t = zoom.wasEndTime
  /\ RLt(Zero, zoom.wasStartTime)
  /\ WindowIs(zoom.wasEndTime, RAdd(zoom.wasEndTime, wasWidth))
  /\ RLe(zoom.endTime, zoom.duration)

\* C20: in stop mode, when a time update reports that currentTime has
\* reached the forward boundary of the window, the window pages forward by
\* one width as in page mode (stopped at the end of the source or not),
\* playback is paused, and currentTime is the new window's startTime.
C20_StopModeHaltsAtBoundary ==
  (zoom.op = "time" /\ zoom.mode = "stop" /\ RLe(zoom.wasEndTime, zoom.t)) =>
    /\ \/ WindowIs(zoom.wasEndTime, RAdd(zoom.wasEndTime, wasWidth))
       \/ LET e == RMin(zoom.duration, RAdd(zoom.wasEndTime, wasWidth))
          IN WindowIs(RMax(Zero, RSub(e, wasWidth)), e)
    /\ ~zoom.isPlaying
    /\ zoom.currentTime = zoom.startTime

\* the last step was a time update in the given mode
UpdateIn(mode) == zoom.op = "time" /\ zoom.mode = mode

\* C21: in loop mode, a time update that reports a currentTime at or after
\* endTime, or before startTime, makes the provider seek the engine to
\* startTime at once, so that the position the context reports next is
\* startTime, and leaves startTime and endTime unchanged.
C21_LoopReentry ==
  (UpdateIn("loop")
     /\ (RLe(zoom.wasEndTime, zoom.t) \/ RLt(zoom.t, zoom.wasStartTime))) =>
    /\ zoom.seek = <<zoom.wasStartTime>>
    /\ zoom.currentTime = zoom.wasStartTime
    /\ WindowIs(zoom.wasStartTime, zoom.wasEndTime)

\* in loop mode over a zoomed window, an update just past endTime was
\* answered by a seek to startTime
C21_Witness ==
  /\ UpdateIn("loop")
  /\ RLt(Zero, zoom.startTime)
  /\ zoom.t = RAdd(zoom.endTime, <<1, 20>>)
  /\ zoom.seek = <<zoom.startTime>>
  /\ zoom.currentTime = zoom.startTime

\* C22: in scroll mode with buffer b, a quarter of the window width, a
\* time update that puts the playhead in the right buffer zone of the
\* window shifts startTime and endTime right by the amount that puts it at
\* the new endTime - b, one that puts it in the left zone shifts both left
\* by the amount that puts it at the new startTime + b, the window does not
\* move when the playhead is outside both zones, and no update changes the
\* window width.
C22_ScrollFollows ==
  UpdateIn("scroll") =>
    LET b == RScale(wasWidth, 1, 4)
        right == RSub(zoom.t, RSub(zoom.wasEndTime, b))
        left == RSub(RAdd(zoom.wasStartTime, b), zoom.t)
    IN /\ RSub(zoom.endTime, zoom.startTime) = wasWidth
       /\ (RLt(Zero, right) /\ RLe(zoom.t, zoom.wasEndTime)) =>
            WindowIs(RAdd(zoom.wasStartTime, right),
                     RAdd(zoom.wasEndTime, right))
       /\ (RLt(Zero, left) /\ RLe(right, Zero)
             /\ RLe(zoom.wasStartTime, zoom.t)) =>
            WindowIs(RSub(zoom.wasStartTime, left),
                     RSub(zoom.wasEndTime, left))
       /\ (RLe(right, Zero) /\ RLe(left, Zero)) =>
            WindowIs(zoom.wasStartTime, zoom.wasEndTime)

\* C23: in scrub mode every time update recomputes the window, of width w
\* before the update, as [currentTime - w/2, currentTime + w/2] with the
\* playhead in the centre, clamped at the boundaries of the source: a
\* window that would start before 0 becomes [0, w] and one that would end
\* after the duration becomes [duration - w, duration].
C23_ScrubCentres ==
  UpdateIn("scrub") =>
    LET half == RScale(wasWidth, 1, 2)
    IN IF RLe(RSub(zoom.t, half), Zero)
         THEN WindowIs(Zero, RMin(zoom.duration, wasWidth))
       ELSE IF RLe(zoom.duration, RAdd(zoom.t, half))
         THEN WindowIs(RMax(Zero, RSub(zoom.duration, wasWidth)),
                       zoom.duration)
       ELSE /\ WindowIs(RSub(zoom.t, half), RAdd(zoom.t, half))
            /\ RSub(zoom.currentTime, zoom.startTime)
                 = RSub(zoom.endTime, zoom.currentTime)

\* in scrub mode a zoomed window was recomputed near the end of the source
\* and clamped there without losing width
C23_Witness ==
  /\ UpdateIn("scrub")
  /\ RLt(zoom.duration, RAdd(zoom.t, RScale(wasWidth, 1, 2)))
  /\ RLt(Zero, zoom.startTime)
  /\ zoom.endTime = zoom.duration
  /\ RSub(zoom.endTime, zoom.startTime) = wasWidth
  /\ (zoom.startTime # zoom.wasStartTime \/ zoom.endTime # zoom.wasEndTime)

\* the position of the playhead within the window, as a fraction of its
\* width
RelativePosition(z) ==
  RDiv(RSub(z.currentTime, z.startTime), zoomedDuration(z))

\* C24: zoomIn and zoomOut preserve the relative position of the playhead
\* within the window: (currentTime - startTime) / (endTime - startTime) is
\* the same after the call as before it.
C24_ZoomKeepsRelativePosition ==
  [][ (zoom.durationKnown /\ zoom'.op \in {"zoomIn", "zoomOut"}) =>
        RelativePosition(zoom') = RelativePosition(zoom) ]_vars

\* the width the window would have after one 20% step from each edge
NarrowedWidth(z) ==
  LET zoomAmount == RScale(zoomedDuration(z), 1, 5)
  IN RSub(RMin(z.duration, RSub(z.endTime, zoomAmount)),
          RMax(Zero, RAdd(z.startTime, zoomAmount)))

\* C25: a zoomIn step that would make the window narrower than the floor
\* leaves startTime, endTime and currentTime unchanged; a zoomIn step never
\* takes a window that is at least as wide as the floor below the floor, and
\* never leaves a window of zero or negative width.
C25_ZoomInFloor ==
  [][ (zoom.durationKnown /\ zoom'.op = "zoomIn") =>
        /\ RLt(NarrowedWidth(zoom), MinimumZoomedDuration) =>
              /\ zoom'.startTime = zoom.startTime
              /\ zoom'.endTime = zoom.endTime
              /\ zoom'.currentTime = zoom.currentTime
        /\ RLe(MinimumZoomedDuration, zoomedDuration(zoom)) =>
              RLe(MinimumZoomedDuration, zoomedDuration(zoom'))
        /\ RLt(Zero, zoomedDuration(zoom')) ]_vars

\* a zoomIn was refused: the window was narrow enough for the step to
\* fall below the floor, and the call left it where it was
C25_Witness ==
  /\ zoom.op = "zoomIn"
  /\ WindowIs(zoom.wasStartTime, zoom.wasEndTime)
  /\ RLt(RScale(zoomedDuration(zoom), 3, 5), MinimumZoomedDuration)
  /\ RLt(Zero, zoomedDuration(zoom))

\* C26: previousMode holds the most recently active mode other than loop:
\* whenever loop mode is entered from mode m, previousMode becomes m;
\* toggling loop mode off returns the mode to previousMode, so that toggling
\* on from m and off again ends in mode m; and previousMode is never "loop"
\* while loop mode is active.
C26_ModeMemory ==
  [][ zoom.durationKnown =>
        /\ (zoom.mode # "loop" /\ zoom'.mode = "loop") =>
              zoom'.previousMode = zoom.mode
        /\ (zoom'.op = "toggleLoop" /\ zoom.mode = "loop") =>
              /\ zoom'.mode = zoom.previousMode
              /\ zoom'.mode # "loop"
        /\ zoom'.mode = "loop" => zoom'.previousMode # "loop" ]_vars

(***************************************************************************)
(* The engine effect of PlaybackProvider                                   *)
(***************************************************************************)

MountBecomes(m) ==
  /\ mount' = m
  /\ UNCHANGED <<engineVars, providerVars, historyVars, poolVars, gfx, zoom>>

\* the component mounts, or backend or src change: the effect runs
EffectRuns(b) ==
  /\ mount.latest < MaxEngines
  /\ MountBecomes(EngineEffect(mount, b))

\* the promise of createAudioEngine for engine g is fulfilled
CreateResolves(g) ==
  /\ mount.eng[g].state = "pending"
  /\ MountBecomes(CreateResolved(mount, g))

\* the promise of createAudioEngine for engine g is rejected
CreateRejects(g) ==
  /\ mount.eng[g].state = "pending"
  /\ MountBecomes(CreateRejected(mount, g))

MountNext ==
  \/ \E b \in Backends : EffectRuns(b)
  \/ \E g \in EngineIds : CreateResolves(g)
  \/ \E g \in EngineIds : CreateRejects(g)

\* the orchestrator while its source and backend change
MountSpec == PoolInit /\ [][MountNext]_vars

(***************************************************************************)
(* Properties of the batches of the spectrogram query                      *)
(***************************************************************************)

\* the processSpectrogram calls of the query that are not settled
InFlight(g) ==
  Cardinality({k \in 1 .. Len(g.promises) : g.promises[k].state = "pending"})

\* C32: at no time are more than MAX_CONCURRENT = min(4, hardwareConcurrency)
\* chunk calls of a query unsettled, and the chunks of the next batch are
\* handed to processSpectrogram only in a step before which every call of
\* the batches so far was fulfilled and after which each of them has its
\* result in chunkResults.
C32_BoundedBatches ==
  [][ /\ InFlight(gfx') <= MAX_CONCURRENT
      /\ Len(gfx'.promises) <= MAX_CONCURRENT
      /\ (gfx.phase = "batch" /\ Len(gfx'.sent) > Len(gfx.sent)) =>
           /\ AllFulfilled(gfx.promises)
           /\ InFlight(gfx) = 0
           /\ Len(gfx'.chunkResults) = Len(gfx.sent)
           /\ Len(gfx'.sent) - Len(gfx.sent) <= MAX_CONCURRENT ]_vars

\* C32 witness: the second batch of a query of three chunks is in flight
\* and both calls of the first batch have their results
C32_Witness ==
  /\ gfx.phase = "batch"
  /\ Len(gfx.chunks) > MAX_CONCURRENT
  /\ gfx.i = MAX_CONCURRENT
  /\ Len(gfx.chunkResults) = MAX_CONCURRENT
  /\ Len(gfx.sent) = Len(gfx.chunks)
  /\ InFlight(gfx) = 1

\* the worker script answers a failed transform of task id with exactly one
\* message that carries the id, of type 'error', and handleWorkerMessage
\* rejects the pending promise for it
FailureRejects ==
  \A id \in TaskIds, outcome \in {"noresult", "threw"} :
    LET replies == SelectSeq(WorkerReplies(id, outcome),
                             LAMBDA msg : msg.id # 0)
    IN /\ Len(replies) = 1
       /\ replies[1].id = id
       /\ replies[1].type = "error"
       /\ Settled([NoTask EXCEPT !.promise = "pending"],
                  replies[1].type, id).promise = "rejected"

C34_PauseHolds ==
  [][ (IsWebAudio /\ lastOp = "pause" /\ ~WeIsAudioPlaying(webAudio)) =>
        ((WeIsAudioPlaying(webAudio') \/ webAudio'.sourceNode.exists) =>
           lastOp' = "play") ]_vars

\* no createAudioEngine call is still to be settled
Settledown == \A g \in EngineIds : mount.eng[g].state # "pending"

\* C35: when every engine initialization has completed, the engine
\* reference is the engine created by the latest run of the effect (if its
\* initialization succeeded), and no engine of an earlier run is live: each
\* was destroyed or failed to initialize.
C35_LatestEngineOnly ==
  (mount.latest > 0 /\ Settledown) =>
    /\ mount.eng[mount.latest].state = "live" => mount.ref = mount.latest
    /\ mount.ref \in {0, mount.latest}
    /\ \A g \in 1 .. (mount.latest - 1) : mount.eng[g].state # "live"

\* C36: every entry of availableWorkers is a worker of the workers array
\* whose thread runs, and no worker is in the list twice.
C36_IdleListSound ==
  \A i \in 1 .. Len(pool.availableWorkers) :
    /\ wk[pool.availableWorkers[i]].state = "live"
    /\ IndexOf(pool.workers, pool.availableWorkers[i]) > 0
    /\ \A j \in 1 .. Len(pool.availableWorkers) :
         pool.availableWorkers[j] = pool.availableWorkers[i] => j = i

\* C37: while no worker faults and terminate() is not called, with every
\* posted message handled and every worker answering, each task submitted
\* through processChunk, before or after the first 'ready', is eventually
\* posted to a worker and its promise is eventually resolved or rejected.
C37_PoolLiveness ==
  \A id \in TaskIds :
    (task[id].promise = "pending") ~>
      (task[id].dispatches = 1 /\ task[id].promise \in {"resolved", "rejected"})

\* C37 witness: both tasks were submitted before any worker was ready and
\* both are settled
C37_Witness ==
  /\ \A id \in TaskIds :
       /\ task[id].promise \in {"resolved", "rejected"}
       /\ ~task[id].transferred
       /\ task[id].dispatches = 1
  /\ pool.taskQueue = <<>>

\* the tasks posted to worker w whose promise is not settled
Unanswered(w) ==
  {id \in TaskIds :
     task[id].dispatches > 0 /\ task[id].to = w /\ task[id].promise = "pending"}

\* C38: a worker has at most one task that was posted to it and is not
\* answered, it has at most one process_chunk message to work on, and a
\* worker in the idle list has no unanswered task.
C38_OneTaskPerWorker ==
  \A w \in WorkerIds :
    /\ Cardinality(Unanswered(w)) <= 1
    /\ Len(wk[w].inbox) <= 1
    /\ IndexOf(pool.availableWorkers, w) > 0 => Unanswered(w) = {}

\* C38 witness: a worker has answered the first task and is working on the
\* second, while the other worker is idle
C38_Witness ==
  /\ task[1].promise = "resolved"
  /\ Unanswered(task[1].to) = {2}
  /\ wk[task[1].to].inbox = <<2>>
  /\ Len(pool.availableWorkers) = 1

\* C39: with audio loaded, the position the WebAudioEngine reports lies
\* between 0 and the duration: 0 <= getCurrentTime() <= getDuration().
C39_PositionBound ==
  (IsWebAudio /\ webAudio.audioBuffer) =>
    /\ 0 <= WeGetCurrentTime(webAudio, now)
    /\ WeGetCurrentTime(webAudio, now) <= WeGetDuration(webAudio)

(***************************************************************************)
(* A further property of the zoom window                                   *)
(***************************************************************************)

\* the last handler was zoomIn, called on a window within the source, and
\* it took effect: the window is no longer the one it was called on
ZoomedIn(z) ==
  /\ z.op = "zoomIn"
  /\ RLe(Zero, z.wasStartTime)
  /\ RLt(z.wasStartTime, z.wasEndTime)
  /\ RLe(z.wasEndTime, z.duration)
  /\ (z.startTime # z.wasStartTime \/ z.endTime # z.wasEndTime)

\* C40: a zoomOut that follows a zoomIn which took effect on a window with
\* 0 <= startTime < endTime <= duration restores the startTime and the
\* endTime the zoomIn was called on.
C40_ZoomRoundTrip ==
  [][ (ZoomedIn(zoom) /\ zoom'.op = "zoomOut" /\ zoom'.ops = zoom.ops + 1) =>
        /\ zoom'.startTime = zoom.wasStartTime
        /\ zoom'.endTime = zoom.wasEndTime ]_vars

====
